---- MODULE Spec2Model ----
(***************************************************************************)
(* Model of the IncidentOps pipeline orchestrator                          *)
(* (src/orchestrator/orchestrator.py): the six stage validators and        *)
(* PipelineExecutor.run(), driven by stubbed collaborators that may return *)
(* any payload of a bounded family or raise.                               *)
(***************************************************************************)
EXTENDS Integers, Sequences, FiniteSets, TLC

\* ------------------------------------------------------------------------
\* Bounds
\* ------------------------------------------------------------------------
\* longest list a stubbed collaborator returns in a pipeline run
MaxAlerts == 2
\* longest list handed to a validator called on its own
MaxItems == 2

\* largest incident count of an audit summary given to LLMGovernanceAgent
MaxCount == 12
\* most entries the audit log file holds before OpsLogAgent stops being called
MaxEntries == 3
\* the seconds the clock shows when OpsLogAgent.run is called
MaxClock == 2

\* run() is called at most this many times on one executor
MaxRuns == 2

\* ------------------------------------------------------------------------
\* Python values.  Every value has the same shape so that values of
\* different Python types can be compared:
\*   t    : type(v).__name__
\*   s    : the text of a str
\*   n    : the number of an int
\*   keys : the keys of a dict, in insertion order
\*   vals : the items of a list, or the values of a dict (parallel to keys)
\* ------------------------------------------------------------------------
PyNone == [t |-> "NoneType", s |-> "", n |-> 0, keys |-> <<>>, vals |-> <<>>]

PyStr(str) == [t |-> "str", s |-> str, n |-> 0, keys |-> <<>>, vals |-> <<>>]

PyInt(num) == [t |-> "int", s |-> "", n |-> num, keys |-> <<>>, vals |-> <<>>]

PyList(items) == [t |-> "list", s |-> "", n |-> 0, keys |-> <<>>, vals |-> items]

PyDict(ks, vs) == [t |-> "dict", s |-> "", n |-> 0, keys |-> ks, vals |-> vs]

\* isinstance(v, list) / isinstance(v, dict)
isinstance(v, tname) == v.t = tname

\* `k in d` for a dict d
In(k, d) == \E i \in 1..Len(d.keys) : d.keys[i] = k

\* d[k] for a dict d that has k
Item(d, k) == d.vals[CHOOSE i \in 1..Len(d.keys) : d.keys[i] = k]

\* d.get(k, default)
get(d, k, default) == IF In(k, d) THEN Item(d, k) ELSE default

\* len(v) for a list
len(v) == Len(v.vals)

\* the set of the elements of a sequence
Range(seq) == {seq[i] : i \in 1..Len(seq)}

\* ------------------------------------------------------------------------
\* Exceptions.  A ValueError raised by a validator is described by the
\* parts of its message: the subject the message starts with, the element
\* index (-1 when the message has none), the quoted field name ("" when none),
\* the complaint, the reported type name and the listed missing fields.
\* ------------------------------------------------------------------------
NoException ==
  [cls |-> "none", subject |-> "", idx |-> -1, field |-> "",
   complaint |-> "", got |-> "", missing |-> <<>>]

ValueError(subject, idx, field, complaint, got, missing) ==
  [cls |-> "ValueError", subject |-> subject, idx |-> idx, field |-> field,
   complaint |-> complaint, got |-> got, missing |-> missing]

\* an exception raised inside a collaborator
CollaboratorError(cls) ==
  [cls |-> cls, subject |-> "", idx |-> -1, field |-> "",
   complaint |-> "collaborator failure", got |-> "", missing |-> <<>>]

\* what a validator call yields: it either returns ret or raises err;
\* data is its argument as the call leaves it
\* a validator that ends without `return data`
ReturnsNothing(data) == [ok |-> TRUE, ret |-> PyNone, err |-> NoException, data |-> data]

Returns(data) == [ok |-> TRUE, ret |-> data, err |-> NoException, data |-> data]

Raises(data, err) == [ok |-> FALSE, ret |-> PyNone, err |-> err, data |-> data]

\* a validator that stops at the first absent field
missing_fields_first(required_fields, d) ==
  LET all == SelectSeq(required_fields, LAMBDA field : ~In(field, d)) IN
  IF all = <<>> THEN <<>> ELSE <<Head(all)>>

\* [field for field in required_fields if field not in d]
missing_fields(required_fields, d) ==
  SelectSeq(required_fields, LAMBDA field : ~In(field, d))

\* the loop `for idx, alert in enumerate(data)` of the two list validators,
\* from element idx (0-based) on: the first element that is not a dict or
\* lacks a required field raises
RECURSIVE validate_items(_, _, _, _)
validate_items(data, idx, subject, required_fields) ==
  IF idx >= len(data) THEN Returns(data)
  ELSE LET alert == data.vals[idx + 1] IN
       IF ~isinstance(alert, "dict")
       THEN Raises(data, ValueError(subject, idx, "", "must be a dict", alert.t, <<>>))
       ELSE IF missing_fields(required_fields, alert) # <<>>
       THEN Raises(data, ValueError(subject, idx, "", "missing required fields", "",
                                    missing_fields(required_fields, alert)))
       ELSE validate_items(data, idx + 1, subject, required_fields)

validate_monitor_output(data) ==
  IF ~isinstance(data, "list")
  THEN Raises(data, ValueError("MonitorAgent", -1, "", "must return a list", data.t, <<>>))
  ELSE validate_items(data, 0, "Alert", <<"timestamp", "level", "message">>)

validate_llm_summary_output(data) ==
  IF ~isinstance(data, "dict")
  THEN Raises(data, ValueError("LLMAlertSummaryAgent", -1, "", "must return a dict", data.t, <<>>))
  ELSE IF missing_fields(<<"alerts", "llm_summary">>, data) # <<>>
  THEN Raises(data, ValueError("LLMAlertSummaryAgent", -1, "", "output missing required fields", "",
                               missing_fields(<<"alerts", "llm_summary">>, data)))
  ELSE IF ~isinstance(Item(data, "alerts"), "list")
  THEN Raises(data, ValueError("LLMAlertSummaryAgent", -1, "alerts", "must be a list",
                               Item(data, "alerts").t, <<>>))
  ELSE IF ~isinstance(Item(data, "llm_summary"), "dict")
  THEN Raises(data, ValueError("LLMAlertSummaryAgent", -1, "llm_summary", "must be a dict",
                               Item(data, "llm_summary").t, <<>>))
  ELSE Returns(data)

validate_triage_output(data) ==
  IF ~isinstance(data, "list")
  THEN Raises(data, ValueError("TriageAgent", -1, "", "must return a list", data.t, <<>>))
  ELSE validate_items(data, 0, "Triaged alert",
                      <<"timestamp", "level", "message", "severity", "category">>)

validate_llm_resolution_output(data) ==
  IF ~isinstance(data, "dict")
  THEN Raises(data, ValueError("LLMResolutionAgent", -1, "", "must return a dict", data.t, <<>>))
  ELSE IF missing_fields(<<"resolution_plans", "llm_resolution_summary">>, data) # <<>>
  THEN Raises(data, ValueError("LLMResolutionAgent", -1, "", "output missing required fields", "",
                               missing_fields(<<"resolution_plans", "llm_resolution_summary">>, data)))
  ELSE IF ~isinstance(Item(data, "resolution_plans"), "list")
  THEN Raises(data, ValueError("LLMResolutionAgent", -1, "resolution_plans", "must be a list",
                               Item(data, "resolution_plans").t, <<>>))
  ELSE IF ~isinstance(Item(data, "llm_resolution_summary"), "dict")
  THEN Raises(data, ValueError("LLMResolutionAgent", -1, "llm_resolution_summary", "must be a dict",
                               Item(data, "llm_resolution_summary").t, <<>>))
  ELSE Returns(data)

validate_opslog_output(data) ==
  IF ~isinstance(data, "dict")
  THEN Raises(data, ValueError("OpsLogAgent", -1, "", "must return a dict", data.t, <<>>))
  ELSE IF missing_fields(<<"status", "count", "timestamp">>, data) # <<>>
  THEN Raises(data, ValueError("OpsLog summary", -1, "", "missing required fields", "",
                               missing_fields(<<"status", "count", "timestamp">>, data)))
  ELSE Returns(data)

validate_governance_output(data) ==
  IF ~isinstance(data, "dict")
  THEN Raises(data, ValueError("LLMGovernanceAgent", -1, "", "must return a dict", data.t, <<>>))
  ELSE IF missing_fields(<<"audit_summary", "governance_analysis">>, data) # <<>>
  THEN Raises(data, ValueError("LLMGovernanceAgent", -1, "", "output missing required fields", "",
                               missing_fields(<<"audit_summary", "governance_analysis">>, data)))
  ELSE IF ~isinstance(Item(data, "governance_analysis"), "dict")
  THEN Raises(data, ValueError("LLMGovernanceAgent", -1, "governance_analysis", "must be a dict",
                               Item(data, "governance_analysis").t, <<>>))
  ELSE IF missing_fields(<<"risk", "escalation", "compliance_issues", "commentary">>,
                         Item(data, "governance_analysis")) # <<>>
  THEN Raises(data, ValueError("Governance analysis", -1, "", "missing required fields", "",
                               missing_fields(<<"risk", "escalation", "compliance_issues", "commentary">>,
                                              Item(data, "governance_analysis"))))
  ELSE Returns(data)

\* ------------------------------------------------------------------------
\* Payloads of the stubbed collaborators
\* ------------------------------------------------------------------------
\* all sequences over S of length at most n
SeqsUpTo(S, n) == UNION {[1..k -> S] : k \in 0..n}

\* a value for the field named k
SampleValue(k) ==
  CASE k = "line_number" -> PyInt(1)
    [] k = "count" -> PyInt(1)
    [] k = "level" -> PyStr("ERROR")
    [] k = "severity" -> PyStr("high")
    [] k = "category" -> PyStr("general")
    [] k = "status" -> PyStr("logged")
    [] k = "risk" -> PyStr("low")
    [] k = "recommended_actions" -> PyList(<<PyStr("Action 1")>>)
    [] k = "compliance_issues" -> PyList(<<>>)
    [] k = "output_path" -> PyNone
    [] OTHER -> PyStr("text")

\* the dict with the keys ks, in that order
Record(ks) == PyDict(ks, [i \in 1..Len(ks) |-> SampleValue(ks[i])])

\* d with d[k] = v set afterwards, k not yet in d
With(d, k, v) == PyDict(Append(d.keys, k), Append(d.vals, v))

\* the list of f(item) for the items of list
MapSeq(f(_), items) == [i \in 1..Len(items) |-> f(items[i])]

MonitorItems ==
  { Record(<<"timestamp", "level", "message">>),
    Record(<<"message", "line_number", "level", "timestamp">>),
    Record(<<"timestamp">>),
    PyStr("not a dict") }

MonitorReturns ==
  {PyStr("not a list")} \cup {PyList(items) : items \in SeqsUpTo(MonitorItems, MaxAlerts)}

\* a valid alert list no Monitor stub returns
OtherAlerts == PyList(<<Record(<<"level", "timestamp", "message", "raw_text">>)>>)

SummaryReturns(alerts) ==
  { PyList(<<>>), PyDict(<<"alerts">>, <<alerts>>) }
  \cup { PyDict(<<"alerts", "llm_summary">>, <<a, sm>>) :
           a \in {alerts, OtherAlerts, PyStr("not a list")},
           sm \in {Record(<<"summary">>), PyStr("not a dict")} }
  \cup { PyDict(<<"llm_summary", "alerts">>, <<Record(<<"summary">>), alerts>>) }

Triaged(alert) ==
  IF isinstance(alert, "dict")
  THEN With(With(alert, "severity", PyStr("high")), "category", PyStr("general"))
  ELSE alert

HalfTriaged(alert) ==
  IF isinstance(alert, "dict") THEN With(alert, "category", PyStr("general")) ELSE alert

\* a valid triaged list that is not the image of the stage's input
OtherTriaged ==
  PyList(<<Record(<<"category", "severity", "message", "level", "timestamp">>)>>)

TriageReturns(alerts) ==
  { PyStr("not a list"),
    PyList(MapSeq(Triaged, alerts.vals)),
    PyList(MapSeq(HalfTriaged, alerts.vals)),
    PyList(<<PyStr("not a dict")>>),
    OtherTriaged }

Plan(alert) == Record(<<"alert_id", "severity", "category", "recommended_actions">>)

\* a plan whose recommended_actions is a str
PlanBadActions(alert) ==
  PyDict(<<"alert_id", "severity", "category", "recommended_actions">>,
         <<PyStr("test_123"), PyStr("high"), PyStr("general"), PyStr("not a list")>>)

\* a plan without alert_id
PlanNoId(alert) == Record(<<"severity", "category", "recommended_actions">>)

PlanLists(triaged) ==
  { PyList(MapSeq(Plan, triaged.vals)),
    PyList(MapSeq(PlanBadActions, triaged.vals)),
    PyList(MapSeq(PlanNoId, triaged.vals)),
    PyList(<<Plan(PyNone), Plan(PyNone), Plan(PyNone)>>),
    PyList(<<>>) }

ResolutionReturns(triaged) ==
  { PyList(<<>>),
    PyDict(<<"resolution_plans">>, <<PyList(<<>>)>>),
    PyDict(<<"resolution_plans", "llm_resolution_summary">>,
           <<PyStr("not a list"), Record(<<"summary">>)>>),
    PyDict(<<"resolution_plans", "llm_resolution_summary">>,
           <<PyList(<<>>), PyStr("not a dict")>>) }
  \cup { PyDict(<<"resolution_plans", "llm_resolution_summary">>,
                <<plans, Record(<<"summary", "escalation">>)>>) : plans \in PlanLists(triaged) }

AuditSummary(status, count) ==
  PyDict(<<"status", "count", "timestamp", "output_path">>,
         <<PyStr(status), count, PyStr("2025-11-15 10:00:00"), PyNone>>)

OpsLogReturns(plans) ==
  { PyList(<<>>),
    Record(<<"status">>),
    Record(<<"timestamp", "status">>),
    AuditSummary("logged", PyInt(len(plans))),
    AuditSummary("logged", PyInt(7)),
    AuditSummary("no_data", PyInt(0)),
    PyDict(<<"timestamp", "count", "status">>, <<PyNone, PyStr("many"), PyStr("failed")>>) }

GovernanceAnalysis == Record(<<"risk", "escalation", "compliance_issues", "commentary">>)

GovernanceReturns(summary) ==
  { PyStr("not a dict"),
    PyDict(<<"governance_analysis">>, <<GovernanceAnalysis>>),
    PyDict(<<"audit_summary", "governance_analysis">>, <<summary, PyStr("not a dict")>>),
    PyDict(<<"audit_summary", "governance_analysis">>, <<summary, Record(<<"risk", "escalation">>)>>),
    PyDict(<<"audit_summary", "governance_analysis">>, <<PyStr("not a dict"), GovernanceAnalysis>>),
    PyDict(<<"governance_analysis", "audit_summary">>, <<GovernanceAnalysis, summary>>),
    PyDict(<<"audit_summary", "governance_analysis">>,
           <<AuditSummary("logged", PyInt(3)), GovernanceAnalysis>>) }

\* the exception classes a stubbed collaborator raises
CollaboratorExceptions == {"ValueError", "RuntimeError"}

\* issubclass(cls, ValueError)
IsValueError(cls) == cls = "ValueError"

\* ------------------------------------------------------------------------
\* Text generator, JSON extraction, audit log file
\* ------------------------------------------------------------------------
PyBool(b) == [t |-> "bool", s |-> "", n |-> IF b THEN 1 ELSE 0, keys |-> <<>>, vals |-> <<>>]

\* bool(v)
Truthy(v) ==
  CASE v.t = "NoneType" -> FALSE
    [] v.t = "str" -> v.s # ""
    [] v.t \in {"int", "bool"} -> v.n # 0
    [] v.t \in {"list", "dict"} -> v.vals # <<>>

\* A text of the generator: raw is the text itself; block tells what the
\* search for {.*} in it finds: "none" (no braces), "broken" (json.loads
\* fails on the match) or "json" (it parses, to obj); fenced tells whether
\* the text is wrapped in ```json fences.
Text(raw, fenced, block, obj) == [raw |-> raw, fenced |-> fenced, block |-> block, obj |-> obj]

\* extract_json_block(text): a dict, or PyNone
extract_json_block(text) ==
  IF text.raw = "" THEN PyNone
  ELSE IF text.block = "none" THEN PyNone
  ELSE IF text.block = "broken" THEN PyNone
  ELSE text.obj

\* OpenAIClient.generate when self.enabled is false
MockResponse ==
  Text("{_mock: true, text: MOCK_RESPONSE}", FALSE, "json",
       PyDict(<<"_mock", "text">>, <<PyBool(TRUE), PyStr("MOCK_RESPONSE")>>))

\* OpenAIClient.generate when the API call fails
ErrorResponse ==
  Text("{error: Connection error.}", FALSE, "json",
       PyDict(<<"error">>, <<PyStr("Connection error.")>>))

\* str.lower() on the texts used as risk levels and as messages
lower(str) ==
  CASE str = "HIGH" -> "high"
    [] str = "Critical" -> "critical"
    [] str = "Database connection timeout" -> "database connection timeout"
    [] str = "Service CRASHED: out of memory" -> "service crashed: out of memory"
    [] str = "Disk usage above threshold" -> "disk usage above threshold"
    [] str = "User login rejected" -> "user login rejected"
    [] OTHER -> str

\* the surroundings of a call: whether generate() raises, the text it
\* returns otherwise, whether prompt_template.format() succeeds
Env(gen_raises, response, template_ok) ==
  [gen_raises |-> gen_raises, response |-> response, template_ok |-> template_ok]

NoEnv == Env(FALSE, Text("", FALSE, "none", PyNone), TRUE)

\* the file at output_path: absent, holding invalid JSON ("corrupt"), or
\* holding the JSON value content
File(state, content) == [state |-> state, content |-> content]

NoFile == File("absent", PyNone)

CorruptFile == File("corrupt", PyNone)

\* ------------------------------------------------------------------------
\* PipelineExecutor
\* ------------------------------------------------------------------------
VARIABLES
  execution_log,  \* self.execution_log
  frame,          \* the local variables of run()
  stage,          \* the stage run() is at, 1..6
  pc,             \* where run() is within the stage, or how it ended
  exc,            \* the exception in flight, NoException when none
  handler,        \* the except clause of run() that caught exc
  result,         \* what run() returned, PyNone before it returns
  call_order,     \* the stages whose collaborator was invoked, in order
  call_args,      \* the argument of each of these invocations
  returned,       \* what each collaborator that returned gave back, in order
  origin,         \* who raised exc: "validator", "collaborator" or "none"
  failed_stage,   \* the stage run() was at when exc was raised, 0 when none
  vname,          \* the validator called on its own
  vdata,          \* its argument before the call
  vresult,        \* what the call yielded
  vpc,            \* "ready" before that call, "called" after, "off" in a run
  env,            \* what the surroundings do during a call made on its own
  store,          \* the audit log file at OpsLogAgent.output_path
  store_before,   \* store as it was before the latest OpsLogAgent.run
  io,             \* the file operations of the latest OpsLogAgent.run
  prompts         \* the agents that called the text generator, in call order

vars == <<execution_log, frame, stage, pc, exc, handler, result,
          call_order, call_args, returned, origin, failed_stage, vname, vdata, vresult, vpc,
          env, store, store_before, io, prompts>>

runvars == <<execution_log, frame, stage, pc, exc, handler, result,
             call_order, call_args, returned, origin, failed_stage>>

valvars == <<vname, vdata, vresult, vpc, env, store, store_before, io, prompts>>

\* the fixed chain
StageOrder ==
  <<"MonitorAgent", "LLMAlertSummaryAgent", "TriageAgent",
    "LLMResolutionAgent", "OpsLogAgent", "LLMGovernanceAgent">>

Stages == 1..Len(StageOrder)

\* an entry that drops the caller's data_count for the default
log_stage_default(stage_name, status, data_count) ==
  [stage |-> stage_name, status |-> status, data_count |-> PyInt(0)]

\* the entry _log_stage appends
log_stage(stage_name, status, data_count) ==
  [stage |-> stage_name, status |-> status, data_count |-> data_count]

\* PipelineExecutor(): an empty execution log, run() not yet entered
InitExecutor ==
  /\ execution_log = <<>>
  /\ frame = [alerts |-> PyNone, llm_output |-> PyNone, triaged |-> PyNone,
              llm_resolution_output |-> PyNone, summary |-> PyNone,
              governance_output |-> PyNone]
  /\ stage = 1
  /\ exc = NoException
  /\ handler = "none"
  /\ result = PyNone
  /\ call_order = <<>>
  /\ call_args = <<>>
  /\ returned = <<>>
  /\ origin = "none"
  /\ failed_stage = 0

Init ==
  /\ InitExecutor
  /\ pc = "call"
  /\ vname = "none" /\ vdata = PyNone /\ vresult = Returns(PyNone) /\ vpc = "off"
  /\ env = NoEnv /\ store = NoFile /\ store_before = NoFile /\ io = <<>>
  /\ prompts = <<>>

\* a stage that invokes its collaborator without logging 'started'
StageCallSilent(i, arg, returns, local) ==
  /\ pc = "call" /\ stage = i
  /\ call_order' = Append(call_order, i)
  /\ call_args' = Append(call_args, arg)
  /\ \/ \E out \in returns :
          /\ frame' = [frame EXCEPT ![local] = out]
          /\ returned' = Append(returned, out)
          /\ pc' = "validate"
          /\ UNCHANGED <<exc, origin, failed_stage>>
     \/ \E cls \in CollaboratorExceptions :
          /\ exc' = CollaboratorError(cls)
          /\ origin' = "collaborator"
          /\ failed_stage' = i
          /\ pc' = "raised"
          /\ UNCHANGED <<frame, returned>>
  /\ UNCHANGED <<execution_log, stage, handler, result, valvars>>

\* the first two statements of stage i: log 'started', then invoke the
\* collaborator with arg; it returns one of returns into the local, or raises
StageCall(i, arg, returns, local) ==
  /\ pc = "call" /\ stage = i
  /\ execution_log' = Append(execution_log, log_stage(StageOrder[i], "started", PyInt(0)))
  /\ call_order' = Append(call_order, i)
  /\ call_args' = Append(call_args, arg)
  /\ \/ \E out \in returns :
          /\ frame' = [frame EXCEPT ![local] = out]
          /\ returned' = Append(returned, out)
          /\ pc' = "validate"
          /\ UNCHANGED <<exc, origin, failed_stage>>
     \/ \E cls \in CollaboratorExceptions :
          /\ exc' = CollaboratorError(cls)
          /\ origin' = "collaborator"
          /\ failed_stage' = i
          /\ pc' = "raised"
          /\ UNCHANGED <<frame, returned>>
  /\ UNCHANGED <<stage, handler, result, valvars>>

\* a stage that swallows the validator's error and goes on with the
\* unvalidated payload
StageValidateSwallow(i, local, res, data_count) ==
  /\ pc = "validate" /\ stage = i
  /\ IF res.ok
     THEN /\ execution_log' = Append(execution_log,
                                     log_stage(StageOrder[i], "completed", data_count))
          /\ UNCHANGED <<exc, origin, failed_stage>>
     ELSE /\ exc' = res.err
          /\ origin' = "validator"
          /\ failed_stage' = i
          /\ UNCHANGED execution_log
  /\ frame' = [frame EXCEPT ![local] = res.data]
  /\ IF i < Len(StageOrder)
     THEN /\ stage' = i + 1 /\ pc' = "call" /\ UNCHANGED result
     ELSE /\ pc' = "returned" /\ result' = res.data /\ UNCHANGED stage
  /\ UNCHANGED <<handler, call_order, call_args, returned, valvars>>

\* the last two statements of stage i: validate the local; when the
\* validator returns, rebind the local, log 'completed' with data_count and
\* go on (stage 6: return the local); when it raises, the error is in flight
StageValidate(i, local, res, data_count) ==
  /\ pc = "validate" /\ stage = i
  /\ IF res.ok
     THEN /\ frame' = [frame EXCEPT ![local] = res.ret]
          /\ execution_log' = Append(execution_log,
                                     log_stage(StageOrder[i], "completed", data_count))
          /\ IF i < Len(StageOrder)
             THEN /\ stage' = i + 1 /\ pc' = "call" /\ UNCHANGED result
             ELSE /\ pc' = "returned" /\ result' = res.ret /\ UNCHANGED stage
          /\ UNCHANGED <<exc, origin, failed_stage>>
     ELSE /\ exc' = res.err
          /\ origin' = "validator"
          /\ failed_stage' = i
          /\ pc' = "raised"
          /\ frame' = [frame EXCEPT ![local] = res.data]
          /\ UNCHANGED <<execution_log, stage, result>>
  /\ UNCHANGED <<handler, call_order, call_args, returned, valvars>>

MonitorCall == StageCall(1, PyNone, MonitorReturns, "alerts")

\* a Monitor stage that asks its collaborator again when the validator
\* rejects the output
MonitorValidateRetry ==
  /\ pc = "validate" /\ stage = 1
  /\ IF validate_monitor_output(frame.alerts).ok
     THEN /\ execution_log' = Append(execution_log,
                 log_stage(StageOrder[1], "completed", PyInt(len(frame.alerts))))
          /\ stage' = 2
     ELSE UNCHANGED <<execution_log, stage>>
  /\ pc' = "call"
  /\ UNCHANGED <<frame, exc, handler, result, call_order, call_args, returned,
                 origin, failed_stage, valvars>>

MonitorValidate ==
  LET res == validate_monitor_output(frame.alerts) IN
  StageValidate(1, "alerts", res, PyInt(len(res.ret)))

LLMSummaryCall ==
  StageCall(2, frame.alerts, SummaryReturns(frame.alerts), "llm_output")

LLMSummaryValidate ==
  LET res == validate_llm_summary_output(frame.llm_output) IN
  StageValidate(2, "llm_output", res, PyInt(len(Item(res.ret, "alerts"))))

\* a Triage stage fed with the Monitor output instead of the summary's alerts
TriageCallFromMonitor ==
  StageCall(3, frame.alerts, TriageReturns(frame.alerts), "triaged")

TriageCall ==
  StageCall(3, Item(frame.llm_output, "alerts"),
            TriageReturns(Item(frame.llm_output, "alerts")), "triaged")

TriageValidate ==
  LET res == validate_triage_output(frame.triaged) IN
  StageValidate(3, "triaged", res, PyInt(len(res.ret)))

LLMResolutionCall ==
  StageCall(4, frame.triaged, ResolutionReturns(frame.triaged), "llm_resolution_output")

LLMResolutionValidate ==
  LET res == validate_llm_resolution_output(frame.llm_resolution_output) IN
  StageValidate(4, "llm_resolution_output", res,
                PyInt(len(Item(res.ret, "resolution_plans"))))

OpsLogCall ==
  StageCall(5, Item(frame.llm_resolution_output, "resolution_plans"),
            OpsLogReturns(Item(frame.llm_resolution_output, "resolution_plans")), "summary")

OpsLogValidate ==
  LET res == validate_opslog_output(frame.summary) IN
  StageValidate(5, "summary", res, get(res.ret, "count", PyInt(0)))

GovernanceCall ==
  StageCall(6, frame.summary, GovernanceReturns(frame.summary), "governance_output")

GovernanceValidate ==
  LET res == validate_governance_output(frame.governance_output) IN
  StageValidate(6, "governance_output", res, PyInt(1))

\* except ValueError: print, re-raise
ExceptValueError ==
  /\ pc = "raised" /\ IsValueError(exc.cls)
  /\ handler' = "ValueError"
  /\ pc' = "failed"
  /\ UNCHANGED <<execution_log, frame, stage, exc, result, call_order, call_args,
                 returned, origin, failed_stage, valvars>>

\* an except clause that puts the audit log file back as it was before
\* the run's OpsLog stage
ExceptExceptionRollback ==
  /\ pc = "raised" /\ ~IsValueError(exc.cls)
  /\ handler' = "Exception"
  /\ pc' = "failed"
  /\ store' = store_before
  /\ UNCHANGED <<execution_log, frame, stage, exc, result, call_order, call_args,
                 returned, origin, failed_stage, vname, vdata, vresult, vpc, env,
                 store_before, io, prompts>>

\* except Exception: print, re-raise
ExceptException ==
  /\ pc = "raised" /\ ~IsValueError(exc.cls)
  /\ handler' = "Exception"
  /\ pc' = "failed"
  /\ UNCHANGED <<execution_log, frame, stage, exc, result, call_order, call_args,
                 returned, origin, failed_stage, valvars>>

Next ==
  \/ MonitorCall \/ MonitorValidate
  \/ LLMSummaryCall \/ LLMSummaryValidate
  \/ TriageCall \/ TriageValidate
  \/ LLMResolutionCall \/ LLMResolutionValidate
  \/ OpsLogCall \/ OpsLogValidate
  \/ GovernanceCall \/ GovernanceValidate
  \/ ExceptValueError \/ ExceptException

Spec == Init /\ [][Next]_vars

\* ------------------------------------------------------------------------
\* The validators called on their own, as the unit tests call them
\* ------------------------------------------------------------------------
\* the sequences obtained from seq by dropping elements
RECURSIVE SubSeqs(_)
SubSeqs(seq) ==
  IF seq = <<>> THEN {<<>>}
  ELSE LET rest == SubSeqs(Tail(seq)) IN rest \cup {<<Head(seq)>> \o r : r \in rest}

Reverse(seq) == [i \in 1..Len(seq) |-> seq[Len(seq) + 1 - i]]

\* key orders of a dict meant to carry the keys of required: any of them
\* may be absent; all of them in reverse order; an extra key in between
KeyOrders(required, extra) ==
  SubSeqs(required) \cup {Reverse(required), <<Head(required), extra>> \o Tail(required)}

\* values that are neither of two given container kinds
Scalars == {PyStr("not a container"), PyNone}

AlertInputs ==
  {Record(ks) : ks \in KeyOrders(<<"timestamp", "level", "message">>, "line_number")}
  \cup Scalars \cup {PyList(<<>>)}

\* triaged alerts: all, two or none of the alert fields, then any of the
\* two triage fields; all five in reverse order; a non-dict
TriagedInputs ==
  {Record(base \o added) :
     base \in {<<"timestamp", "level", "message">>, <<"timestamp", "message">>, <<>>},
     added \in SubSeqs(<<"severity", "category">>)}
  \cup {Record(<<"category", "severity", "message", "level", "timestamp">>),
        PyStr("not a dict")}

PlanInputs ==
  {Plan(PyNone), PlanBadActions(PyNone), PlanNoId(PyNone), Record(<<"alert_id">>),
   PyStr("not a dict")}

AnalysisInputs ==
  {Record(ks) : ks \in KeyOrders(<<"risk", "escalation", "compliance_issues", "commentary">>,
                                 "confidence")}
  \cup Scalars \cup {PyList(<<>>)}

\* the dicts with some of the two keys k1, k2, in either order, with
\* values from V1 and V2
TwoFieldDicts(k1, V1, k2, V2) ==
  {PyDict(<<>>, <<>>)}
  \cup {PyDict(<<k1>>, <<v1>>) : v1 \in V1}
  \cup {PyDict(<<k2>>, <<v2>>) : v2 \in V2}
  \cup UNION {{PyDict(<<k1, k2>>, <<v1, v2>>), PyDict(<<k2, k1>>, <<v2, v1>>)} :
                v1 \in V1, v2 \in V2}

ValidatorInputs(name) ==
  CASE name = "monitor" ->
         Scalars \cup {Record(<<"timestamp", "level", "message">>)}
         \cup {PyList(items) : items \in SeqsUpTo(AlertInputs, MaxItems)}
    [] name = "llm_summary" ->
         Scalars \cup {PyList(<<>>)}
         \cup TwoFieldDicts("alerts",
                            {PyList(<<>>), OtherAlerts, PyStr("not a list"), Record(<<"timestamp">>)},
                            "llm_summary",
                            {Record(<<"summary">>), PyDict(<<>>, <<>>), PyStr("not a dict"), PyList(<<>>)})
    [] name = "triage" ->
         Scalars \cup {Record(<<"timestamp", "level", "message", "severity", "category">>)}
         \cup {PyList(items) : items \in SeqsUpTo(TriagedInputs, MaxItems)}
    [] name = "llm_resolution" ->
         Scalars \cup {PyList(<<>>)}
         \cup TwoFieldDicts("resolution_plans",
                            {PyList(items) : items \in SeqsUpTo(PlanInputs, MaxItems)}
                              \cup {PyStr("not a list")},
                            "llm_resolution_summary",
                            {Record(<<"summary", "escalation">>), PyStr("not a dict")})
    [] name = "opslog" ->
         Scalars \cup {PyList(<<>>)}
         \cup {Record(ks) : ks \in KeyOrders(<<"status", "count", "timestamp">>, "output_path")}
    [] name = "governance" ->
         Scalars \cup {PyList(<<>>)}
         \cup TwoFieldDicts("audit_summary",
                            {AuditSummary("logged", PyInt(1)), PyStr("not a dict"), PyNone},
                            "governance_analysis", AnalysisInputs)

ValidatorNames ==
  {"monitor", "llm_summary", "triage", "llm_resolution", "opslog", "governance"}

\* a fresh executor, run() not called, and one validator about to be
\* called with one payload
InitValidate ==
  /\ InitExecutor
  /\ pc = "idle"
  /\ vname \in ValidatorNames
  /\ vdata \in ValidatorInputs(vname)
  /\ vresult = Returns(PyNone)
  /\ vpc = "ready"
  /\ env = NoEnv /\ store = NoFile /\ store_before = NoFile /\ io = <<>>
  /\ prompts = <<>>

\* the call validate(vdata) of the validator called name
CallValidator(name, res) ==
  /\ vpc = "ready" /\ vname = name
  /\ vresult' = res
  /\ vpc' = "called"
  /\ UNCHANGED <<vname, vdata, env, store, store_before, io, prompts, runvars>>

CallValidateMonitor == CallValidator("monitor", validate_monitor_output(vdata))

CallValidateLLMSummary == CallValidator("llm_summary", validate_llm_summary_output(vdata))

CallValidateTriage == CallValidator("triage", validate_triage_output(vdata))

CallValidateLLMResolution ==
  CallValidator("llm_resolution", validate_llm_resolution_output(vdata))

CallValidateOpsLog == CallValidator("opslog", validate_opslog_output(vdata))

CallValidateGovernance == CallValidator("governance", validate_governance_output(vdata))

NextValidate ==
  \/ CallValidateMonitor \/ CallValidateLLMSummary \/ CallValidateTriage
  \/ CallValidateLLMResolution \/ CallValidateOpsLog \/ CallValidateGovernance

SpecValidate == InitValidate /\ [][NextValidate]_vars

\* ------------------------------------------------------------------------
\* The agents called on their own
\* ------------------------------------------------------------------------
\* what a step inside an agent yields: a value, or an exception of class cls
Value(v) == [ok |-> TRUE, val |-> v, cls |-> ""]

Exception(cls) == [ok |-> FALSE, val |-> PyNone, cls |-> cls]

\* what an agent call yields, in the shape of a validator call's result:
\* data is the argument as the call leaves it
AgentResult(outcome, data) ==
  IF outcome.ok THEN [ok |-> TRUE, ret |-> outcome.val, err |-> NoException, data |-> data]
  ELSE Raises(data, CollaboratorError(outcome.cls))

EmptyDict == PyDict(<<>>, <<>>)

EmptyList == PyList(<<>>)

\* whether len(v) is defined
HasLen(v) == v.t \in {"str", "list", "dict"}

\* datetime.now().strftime('%Y-%m-%d %H:%M:%S') in the second now
strftime(now) == "2025-11-15 10:00:0" \o ToString(now)

\* whether _create_audit_entry can read what it reads from plan
PlanLoggable(plan) ==
  /\ isinstance(plan, "dict")
  /\ In("alert_id", plan)
  /\ HasLen(get(plan, "recommended_actions", EmptyList))
  /\ get(plan, "priority", PyInt(4)).t \in {"int", "bool"}

\* OpsLogAgent._create_audit_entry, called with a non-empty argument; of
\* stage_outputs the entry keeps plans_generated, of audit_metadata entry_id
create_audit_entry(resolution_plans, now) ==
  IF ~isinstance(resolution_plans, "list") THEN Exception("TypeError")
  ELSE IF \E plan \in Range(resolution_plans.vals) : ~isinstance(plan, "dict")
    THEN Exception("TypeError")
  ELSE IF \E plan \in Range(resolution_plans.vals) : ~In("alert_id", plan)
    THEN Exception("KeyError")
  ELSE IF \E plan \in Range(resolution_plans.vals) : ~PlanLoggable(plan)
    THEN Exception("TypeError")
  ELSE Value(PyDict(
         <<"execution_timestamp", "pipeline_name", "stage_outputs",
           "resolution_plans", "total_incidents", "audit_metadata">>,
         <<PyStr(strftime(now)), PyStr("incident_detection"),
           PyDict(<<"plans_generated">>, <<PyInt(len(resolution_plans))>>),
           resolution_plans, PyInt(len(resolution_plans)),
           PyDict(<<"entry_id">>, <<PyStr("audit_" \o strftime(now))>>)>>))

\* what the file system does during _persist_audit_log: nothing wrong, or
\* the first operation that raises
DiskOutcomes == {"ok", "makedirs_fails", "read_fails", "open_fails", "dump_fails"}

\* existing_logs before the append: [] for a missing or invalid file, the
\* loaded list, or the loaded value wrapped in a list
existing_logs(file) ==
  IF file.state # "json" THEN <<>>
  ELSE IF isinstance(file.content, "list") THEN file.content.vals
  ELSE <<file.content>>

Persisted(success, file, ops) == [success |-> success, file |-> file, io |-> ops]

\* a persist that writes the new entry alone
persist_audit_log_fresh(file, audit_entry, disk) ==
  Persisted(TRUE, File("json", PyList(<<audit_entry>>)), <<"exists", "open", "write">>)

\* OpsLogAgent._persist_audit_log: open(path, 'w') empties the file before
\* json.dump writes, so a failing dump leaves text that is not valid JSON
persist_audit_log(file, audit_entry, disk) ==
  IF disk = "makedirs_fails" THEN Persisted(FALSE, file, <<"makedirs">>)
  ELSE IF file.state # "absent" /\ disk = "read_fails"
    THEN Persisted(FALSE, file, <<"exists", "read">>)
  ELSE
    LET logs == Append(existing_logs(file), audit_entry)
        reads == IF file.state = "absent" THEN <<"exists">> ELSE <<"exists", "read">>
    IN IF disk = "open_fails" THEN Persisted(FALSE, file, Append(reads, "open"))
       ELSE IF disk = "dump_fails"
         THEN Persisted(FALSE, CorruptFile, reads \o <<"open", "write">>)
       ELSE Persisted(TRUE, File("json", PyList(logs)), reads \o <<"open", "write">>)

OutputPath == PyStr("data/output_log.json")

Called(outcome, file, ops) == [outcome |-> outcome, file |-> file, io |-> ops]

\* a run that logs an empty plan list like any other
opslog_run_always(resolution_plans, file, now, disk) ==
  LET audit_entry == create_audit_entry(resolution_plans, now)
      persisted == persist_audit_log(file, audit_entry.val, disk)
  IN IF ~audit_entry.ok THEN Called(audit_entry, file, <<>>)
     ELSE Called(Value(PyDict(
                   <<"status", "count", "timestamp", "output_path">>,
                   <<PyStr(IF persisted.success THEN "logged" ELSE "failed"),
                     PyInt(len(resolution_plans)),
                     Item(audit_entry.val, "execution_timestamp"),
                     IF persisted.success THEN OutputPath ELSE PyNone>>)),
                 persisted.file, persisted.io)

\* OpsLogAgent.run
opslog_run(resolution_plans, file, now, disk) ==
  IF ~Truthy(resolution_plans)
  THEN Called(Value(PyDict(<<"status", "count", "timestamp", "output_path">>,
                           <<PyStr("no_data"), PyInt(0), PyNone, PyNone>>)),
              file, <<>>)
  ELSE
    LET audit_entry == create_audit_entry(resolution_plans, now)
        persisted == persist_audit_log(file, audit_entry.val, disk)
    IN IF ~audit_entry.ok THEN Called(audit_entry, file, <<>>)
       ELSE Called(Value(PyDict(
                     <<"status", "count", "timestamp", "output_path">>,
                     <<PyStr(IF persisted.success THEN "logged" ELSE "failed"),
                       PyInt(len(resolution_plans)),
                       Item(audit_entry.val, "execution_timestamp"),
                       IF persisted.success THEN OutputPath ELSE PyNone>>)),
                   persisted.file, persisted.io)

\* LLMGovernanceAgent._load_audit_log
load_audit_log(output_path, file) ==
  IF ~Truthy(output_path) THEN EmptyDict
  ELSE IF file.state # "json" THEN EmptyDict
  ELSE IF isinstance(file.content, "list") /\ Truthy(file.content)
    THEN file.content.vals[Len(file.content.vals)]
  ELSE IF isinstance(file.content, "dict") THEN file.content
  ELSE EmptyDict

\* whether the per-plan summaries of _simplify_audit_log and
\* _generate_recommendations_summary can be computed for plan
PlanSummarizable(plan) ==
  /\ isinstance(plan, "dict")
  /\ HasLen(get(plan, "recommended_actions", EmptyList))
  /\ get(plan, "priority", PyInt(4)).t \in {"int", "bool"}

\* LLMGovernanceAgent._simplify_audit_log: the simplified log, or the
\* exception of a lookup on something that is not what the code expects
simplify_audit_log(audit_log) ==
  IF ~Truthy(audit_log) THEN Value(EmptyDict)
  ELSE IF ~isinstance(audit_log, "dict") THEN Exception("AttributeError")
  ELSE
    LET resolution_plans == get(audit_log, "resolution_plans", EmptyList)
        simplified ==
          PyDict(<<"timestamp", "total_incidents", "stage_outputs">>,
                 <<get(audit_log, "execution_timestamp", PyNone),
                   get(audit_log, "total_incidents", PyInt(0)),
                   get(audit_log, "stage_outputs", EmptyDict)>>)
    IN IF ~Truthy(resolution_plans) THEN Value(simplified)
       ELSE IF ~isinstance(resolution_plans, "list") THEN Exception("TypeError")
       ELSE IF \E plan \in Range(resolution_plans.vals) : ~PlanSummarizable(plan)
         THEN Exception("AttributeError")
       ELSE Value(With(simplified, "resolution_plans_summary",
                       PyInt(len(resolution_plans))))

RiskLevels == {"low", "medium", "high", "critical"}

\* a parse that takes the generator's risk as it comes
governance_parse_llm_response_raw(response) ==
  LET parsed == extract_json_block(response)
  IN IF Truthy(parsed)
     THEN Value(PyDict(
            <<"risk", "escalation", "compliance_issues", "commentary">>,
            <<get(parsed, "risk", PyStr("medium")),
              get(parsed, "escalation", PyStr("No escalation required")),
              get(parsed, "compliance_issues", EmptyList),
              get(parsed, "commentary", PyStr("Analysis completed"))>>))
     ELSE Value(PyDict(
            <<"risk", "escalation", "compliance_issues", "commentary">>,
            <<PyStr("medium"),
              PyStr("Unable to determine - manual review recommended"),
              EmptyList,
              PyStr(IF response.raw # "" THEN response.raw ELSE "No analysis available")>>))

\* LLMGovernanceAgent._parse_llm_response
governance_parse_llm_response(response) ==
  LET parsed == extract_json_block(response)
  IN IF Truthy(parsed)
     THEN LET given == get(parsed, "risk", PyStr("medium"))
          IN IF ~isinstance(given, "str") THEN Exception("AttributeError")
             ELSE Value(PyDict(
                    <<"risk", "escalation", "compliance_issues", "commentary">>,
                    <<PyStr(IF lower(given.s) \in RiskLevels THEN lower(given.s) ELSE "medium"),
                      get(parsed, "escalation", PyStr("No escalation required")),
                      get(parsed, "compliance_issues", EmptyList),
                      get(parsed, "commentary", PyStr("Analysis completed"))>>))
     ELSE Value(PyDict(
            <<"risk", "escalation", "compliance_issues", "commentary">>,
            <<PyStr("medium"),
              PyStr("Unable to determine - manual review recommended"),
              EmptyList,
              PyStr(IF response.raw # "" THEN response.raw ELSE "No analysis available")>>))

FallbackIssues ==
  PyList(<<PyStr("LLM analysis unavailable - manual compliance review recommended")>>)

Analysis(risk, escalation, incident_count) ==
  PyDict(<<"risk", "escalation", "compliance_issues", "commentary">>,
         <<PyStr(risk), PyStr(escalation), FallbackIssues,
           PyStr("Detected " \o ToString(incident_count.n) \o " incident(s).")>>)

\* a fallback whose last two rows are merged
generate_fallback_analysis_flat(audit_summary) ==
  LET incident_count == get(audit_summary, "count", PyInt(0))
  IN IF incident_count.t \notin {"int", "bool"} THEN Exception("TypeError")
     ELSE IF incident_count.n = 0 THEN Value(Analysis("low", "None required", incident_count))
     ELSE IF incident_count.n <= 2
       THEN Value(Analysis("low", "Monitor for recurring patterns", incident_count))
     ELSE IF incident_count.n <= 5
       THEN Value(Analysis("medium", "Review with team lead if issues persist", incident_count))
     ELSE Value(Analysis("high", "Escalate to on-call engineer", incident_count))

\* LLMGovernanceAgent._generate_fallback_analysis
generate_fallback_analysis(audit_summary) ==
  LET incident_count == get(audit_summary, "count", PyInt(0))
  IN IF incident_count.t \notin {"int", "bool"} THEN Exception("TypeError")
     ELSE IF incident_count.n = 0 THEN Value(Analysis("low", "None required", incident_count))
     ELSE IF incident_count.n <= 2
       THEN Value(Analysis("low", "Monitor for recurring patterns", incident_count))
     ELSE IF incident_count.n <= 5
       THEN Value(Analysis("medium", "Review with team lead if issues persist", incident_count))
     ELSE IF incident_count.n <= 10
       THEN Value(Analysis("high", "Escalate to on-call engineer", incident_count))
     ELSE Value(Analysis("critical", "Immediate escalation to incident commander required",
                         incident_count))

\* an output that reports the summary without its output_path
GovernanceOutputNoPath(input_data, governance_analysis) ==
  PyDict(<<"audit_summary", "governance_analysis">>,
         <<IF isinstance(input_data, "dict") /\ In("output_path", input_data)
             THEN PyDict(input_data.keys,
                         [i \in 1..Len(input_data.keys) |->
                            IF input_data.keys[i] = "output_path" THEN PyStr("withheld")
                            ELSE input_data.vals[i]])
             ELSE input_data,
           governance_analysis>>)

\* the dict LLMGovernanceAgent.run returns
GovernanceOutput(input_data, governance_analysis) ==
  PyDict(<<"audit_summary", "governance_analysis">>, <<input_data, governance_analysis>>)

NoDataAnalysis ==
  PyDict(<<"risk", "escalation", "compliance_issues", "commentary">>,
         <<PyStr("low"), PyStr("None required"), EmptyList,
           PyStr("No incidents detected - system operating normally.")>>)

\* the try block of LLMGovernanceAgent.run with its except clause
governance_try(input_data, e) ==
  LET parsed == governance_parse_llm_response(e.response)
      issues == Item(parsed.val, "compliance_issues")
      fallback == generate_fallback_analysis(input_data)
  IN IF e.gen_raises \/ ~parsed.ok \/ (Truthy(issues) /\ ~HasLen(issues))
     THEN IF fallback.ok THEN Value(GovernanceOutput(input_data, fallback.val)) ELSE fallback
     ELSE Value(GovernanceOutput(input_data, parsed.val))

\* whether LLMGovernanceAgent.run reaches self.llm_client.generate(prompt)
governance_generates(input_data, e, file) ==
  /\ Truthy(input_data)
  /\ get(input_data, "status", PyNone) # PyStr("no_data")
  /\ LET loaded == load_audit_log(get(input_data, "output_path", PyNone), file)
     IN simplify_audit_log(IF ~Truthy(loaded) THEN input_data ELSE loaded).ok
  /\ e.template_ok

\* a run that treats a summary without incidents as one without data
governance_run_zero(input_data, e, file) ==
  IF ~Truthy(input_data) \/ get(input_data, "count", PyNone) = PyInt(0)
  THEN Value(GovernanceOutput(input_data, NoDataAnalysis))
  ELSE governance_try(input_data, e)

\* LLMGovernanceAgent.run
governance_run(input_data, e, file) ==
  IF ~Truthy(input_data) \/ get(input_data, "status", PyNone) = PyStr("no_data")
  THEN Value(GovernanceOutput(input_data, NoDataAnalysis))
  ELSE
    LET loaded == load_audit_log(get(input_data, "output_path", PyNone), file)
        audit_log == IF ~Truthy(loaded) THEN input_data ELSE loaded
        simplified_log == simplify_audit_log(audit_log)
    IN IF ~simplified_log.ok THEN simplified_log
       ELSE IF ~e.template_ok THEN Exception("KeyError")
       ELSE governance_try(input_data, e)

\* AuditSummary as OpsLogAgent.run builds it
Summary(status, count, output_path) ==
  PyDict(<<"status", "count", "timestamp", "output_path">>,
         <<PyStr(status), count, PyStr(strftime(1)), output_path>>)

\* the counts of a summary: the integers up to MaxCount, and a count that
\* is not a number
Counts == {PyInt(n) : n \in 0..MaxCount} \cup {PyStr("many")}

GovernanceInputs ==
  { Summary(status, count, output_path) :
      status \in {"logged", "failed", "no_data"},
      count \in Counts,
      output_path \in {PyNone, OutputPath} }

NoText == Text("", FALSE, "none", PyNone)

\* a governance analysis as JSON text, with risk and compliance_issues as given
AnalysisText(raw, fenced, risk, compliance_issues) ==
  Text(raw, fenced, "json",
       PyDict(<<"risk", "escalation", "compliance_issues", "commentary">>,
              <<risk, PyStr("Page the on-call engineer"), compliance_issues,
                PyStr("Two outages in one hour")>>))

GovernanceResponses ==
  { NoText,
    Text("All systems nominal.", FALSE, "none", PyNone),
    Text("{risk: high", FALSE, "none", PyNone),
    Text("{risk: high}", FALSE, "broken", PyNone),
    Text("{}", FALSE, "json", EmptyDict),
    MockResponse,
    ErrorResponse,
    AnalysisText("analysis HIGH", FALSE, PyStr("HIGH"), PyList(<<PyStr("No postmortem")>>)),
    AnalysisText("fenced analysis low", TRUE, PyStr("low"), EmptyList),
    AnalysisText("analysis severe", FALSE, PyStr("severe"), EmptyList),
    AnalysisText("analysis 3", FALSE, PyInt(3), EmptyList),
    AnalysisText("analysis issues 2", FALSE, PyStr("Critical"), PyInt(2)) }

GovernanceEnvs ==
  {Env(TRUE, NoText, TRUE)}
  \cup {Env(FALSE, response, template_ok) :
          response \in GovernanceResponses, template_ok \in BOOLEAN}

\* a plan as _generate_fallback_plans builds it, and one whose priority is a str
LoggedPlan(priority) ==
  PyDict(<<"alert_id", "severity", "category", "recommended_actions", "priority">>,
         <<PyStr("2025-01-01 00:00:00_0"), PyStr("high"), PyStr("database"),
           PyList(<<PyStr("Review alert details")>>), priority>>)

\* the files LLMGovernanceAgent may find at output_path
GovernanceFiles ==
  { NoFile,
    CorruptFile,
    File("json", PyList(<<create_audit_entry(PyList(<<LoggedPlan(PyInt(2))>>), 1).val>>)),
    File("json", PyList(<<PyStr("note")>>)),
    File("json", With(EmptyDict, "resolution_plans", PyList(<<LoggedPlan(PyStr("high"))>>))) }

\* TriageAgent.severity_rules, in the order of the dict
severity_rules ==
  << <<"critical", {"crash", "fatal", "down", "outage", "unavailable"}>>,
     <<"high", {"timeout", "failed", "failure", "error", "exception"}>>,
     <<"medium", {"warning", "degraded", "slow", "threshold"}>>,
     <<"low", {"info", "notice", "debug"}>> >>

\* TriageAgent.category_rules, in the order of the dict
category_rules ==
  << <<"database", {"database", "db", "sql", "query", "connection pool"}>>,
     <<"network", {"network", "timeout", "connection", "socket", "dns"}>>,
     <<"memory", {"memory", "heap", "oom", "allocation", "leak"}>>,
     <<"disk", {"disk", "storage", "filesystem", "io", "space"}>>,
     <<"performance", {"slow", "latency", "performance", "threshold", "degraded"}>>,
     <<"security", {"security", "auth", "unauthorized", "forbidden", "breach"}>>,
     <<"application", {"application", "service", "process", "runtime"}>> >>

\* the keywords k of the rules with `k in message`, message in lower case
KeywordsIn(message) ==
  CASE message = "database connection timeout" -> {"connection", "database", "io", "timeout"}
    [] message = "service crashed: out of memory" -> {"crash", "memory", "service"}
    [] message = "disk usage above threshold" -> {"disk", "threshold"}
    [] OTHER -> {}

\* the name of the first rule one of whose keywords is in message, or default
FirstRule(rules, message, default) ==
  LET hits == {i \in 1..Len(rules) : rules[i][2] \cap KeywordsIn(message) # {}}
  IN IF hits = {} THEN default
     ELSE rules[CHOOSE i \in hits : \A j \in hits : i <= j][1]

\* TriageAgent._determine_severity
determine_severity(message, level) ==
  FirstRule(severity_rules, message,
            IF level = PyStr("ERROR") THEN "high"
            ELSE IF level = PyStr("WARNING") THEN "medium"
            ELSE "low")

\* TriageAgent._determine_category
determine_category(message) == FirstRule(category_rules, message, "general")

\* d with d[k] = v set afterwards: a key d has keeps its place
SetItem(d, k, v) ==
  IF In(k, d)
  THEN PyDict(d.keys, [i \in 1..Len(d.keys) |-> IF d.keys[i] = k THEN v ELSE d.vals[i]])
  ELSE With(d, k, v)

Classified(triaged_alert, alert) == [triaged_alert |-> triaged_alert, alert |-> alert]

\* a classification that writes severity and category into the alert it is given
classify_alert_in_place(alert) ==
  LET message == lower(get(alert, "message", PyStr("")).s)
      level == get(alert, "level", PyStr("INFO"))
      triaged_alert ==
        SetItem(SetItem(alert, "severity", PyStr(determine_severity(message, level))),
                "category", PyStr(determine_category(message)))
  IN Classified(triaged_alert, triaged_alert)

\* TriageAgent._classify_alert: the new dict it returns, and the alert as the
\* call leaves it
classify_alert(alert) ==
  LET message == lower(get(alert, "message", PyStr("")).s)
      level == get(alert, "level", PyStr("INFO"))
      triaged_alert ==
        SetItem(SetItem(alert, "severity", PyStr(determine_severity(message, level))),
                "category", PyStr(determine_category(message)))
  IN Classified(triaged_alert, alert)

TriagedAlertOf(alert) == classify_alert(alert).triaged_alert

AlertLeftBy(alert) == classify_alert(alert).alert

Ran(outcome, data) == [outcome |-> outcome, data |-> data]

\* TriageAgent.run: what it returns or raises, and its argument as it leaves it
triage_run(alerts) ==
  IF ~Truthy(alerts) THEN Ran(Value(EmptyList), alerts)
  ELSE IF ~isinstance(alerts, "list") THEN Ran(Exception("AttributeError"), alerts)
  ELSE IF \E alert \in Range(alerts.vals) : ~isinstance(alert, "dict")
    THEN Ran(Exception("AttributeError"), alerts)
  ELSE Ran(Value(PyList(MapSeq(TriagedAlertOf, alerts.vals))),
           PyList(MapSeq(AlertLeftBy, alerts.vals)))

\* the alert _parse_log_line makes of a log line
AlertRecord(timestamp, level, message, line_number) ==
  PyDict(<<"timestamp", "level", "message", "line_number", "raw_log">>,
         <<PyStr(timestamp), PyStr(level), PyStr(message), PyInt(line_number),
           PyStr(timestamp \o " " \o level \o " " \o message)>>)

AlertRecords ==
  { AlertRecord("2025-01-01 00:00:00", "ERROR", "Database connection timeout", 1),
    AlertRecord("2025-01-01 00:00:05", "ERROR", "Service CRASHED: out of memory", 2),
    AlertRecord("2025-01-01 00:00:05", "WARNING", "Disk usage above threshold", 3),
    AlertRecord("2025-01-01 00:00:09", "WARNING", "User login rejected", 7),
    PyDict(<<"timestamp", "line_number">>, <<PyStr("2025-01-01 00:00:11"), PyInt(9)>>) }

TriageInputs == {PyList(items) : items \in SeqsUpTo(AlertRecords, MaxAlerts)}

\* priority_map.get(severity, 3)
priority_map(severity) ==
  CASE severity = PyStr("critical") -> 1
    [] severity = PyStr("high") -> 2
    [] severity = PyStr("medium") -> 3
    [] severity = PyStr("low") -> 4
    [] OTHER -> 3

\* the plan _generate_fallback_plans makes of alert at index idx (from 0)
fallback_plan(alert, idx) ==
  LET severity == get(alert, "severity", PyStr("medium"))
      category == get(alert, "category", PyStr("general"))
  IN PyDict(
       <<"alert_id", "timestamp", "severity", "category", "message",
         "recommended_actions", "priority", "reasoning">>,
       <<PyStr(get(alert, "timestamp", PyStr("unknown")).s \o "_" \o ToString(idx)),
         get(alert, "timestamp", PyNone), severity, category,
         get(alert, "message", PyStr("")),
         PyList(<<PyStr("Investigate " \o category.s \o " issue with " \o severity.s
                        \o " severity"),
                  PyStr("Review system logs for additional context"),
                  PyStr("Monitor system metrics for related issues")>>),
         PyInt(priority_map(severity)),
         PyStr("Standard response for " \o severity.s \o " severity " \o category.s
                 \o " incident")>>)

ResolutionOutput(resolution_plans, summary, escalation, affected_systems) ==
  PyDict(<<"resolution_plans", "llm_resolution_summary">>,
         <<resolution_plans,
           PyDict(<<"summary", "escalation", "affected_systems">>,
                  <<summary, escalation, affected_systems>>)>>)

\* the distinct elements of seq, each at its first place
Distinct(seq) ==
  LET firsts == {i \in 1..Len(seq) : \A j \in 1..(i - 1) : seq[j] # seq[i]}
  IN [k \in 1..Cardinality(firsts) |->
        seq[CHOOSE i \in firsts : Cardinality({j \in firsts : j < i}) = k - 1]]

\* LLMResolutionAgent._generate_fallback_plans; the summary text keeps the
\* number of plans and of categories, affected_systems lists the set of
\* categories in the order of the alerts
generate_fallback_plans(alerts) ==
  LET severities == {get(alerts.vals[i], "severity", PyStr("medium")) : i \in 1..len(alerts)}
      categories ==
        Distinct([i \in 1..len(alerts) |-> get(alerts.vals[i], "category", PyStr("general"))])
  IN ResolutionOutput(
       PyList([i \in 1..len(alerts) |-> fallback_plan(alerts.vals[i], i - 1)]),
       PyStr("Generated " \o ToString(len(alerts)) \o " resolution plan(s) across "
               \o ToString(Len(categories)) \o " categories"),
       PyStr(IF PyStr("critical") \in severities
               THEN "Immediate escalation to on-call engineer required"
             ELSE IF PyStr("high") \in severities
               THEN "Consider escalation if issues persist"
             ELSE "None required"),
       PyList(categories))

\* LLMResolutionAgent._parse_llm_response
resolution_parse_llm_response(response, original_alerts) ==
  LET parsed == extract_json_block(response)
  IN IF Truthy(parsed) /\ In("resolution_plans", parsed)
     THEN ResolutionOutput(
            get(parsed, "resolution_plans", EmptyList),
            get(parsed, "summary", PyStr("Summary not available")),
            get(parsed, "escalation", PyStr("No escalation required")),
            get(parsed, "affected_systems", EmptyList))
     ELSE generate_fallback_plans(original_alerts)

NoPlansOutput ==
  ResolutionOutput(EmptyList, PyStr("No resolution plans generated."),
                   PyStr("None required"), EmptyList)

\* whether LLMResolutionAgent.run reaches self.llm_client.generate(prompt)
resolution_generates(input_data, e) ==
  /\ Truthy(input_data)
  /\ isinstance(input_data, "list")
  /\ \A alert \in Range(input_data.vals) : isinstance(alert, "dict")
  /\ e.template_ok

\* LLMResolutionAgent.run
resolution_run(input_data, e) ==
  IF ~Truthy(input_data) THEN Value(NoPlansOutput)
  ELSE IF ~isinstance(input_data, "list") THEN Exception("AttributeError")
  ELSE IF \E alert \in Range(input_data.vals) : ~isinstance(alert, "dict")
    THEN Exception("AttributeError")
  ELSE IF ~e.template_ok THEN Exception("KeyError")
  ELSE
    LET parsed_output == resolution_parse_llm_response(e.response, input_data)
    IN IF e.gen_raises \/ ~HasLen(Item(parsed_output, "resolution_plans"))
       THEN Value(generate_fallback_plans(input_data))
       ELSE Value(parsed_output)

\* a triaged alert as TriageAgent returns it
TriagedRecords ==
  { TriagedAlertOf(AlertRecord("2025-01-01 00:00:00", "ERROR", "Database connection timeout", 1)),
    TriagedAlertOf(AlertRecord("2025-01-01 00:00:05", "ERROR", "Service CRASHED: out of memory", 2)),
    TriagedAlertOf(AlertRecord("2025-01-01 00:00:09", "WARNING", "User login rejected", 7)) }

ResolutionInputs == {PyList(items) : items \in SeqsUpTo(TriagedRecords, MaxAlerts)}

\* a resolution answer as JSON text with the given resolution_plans
PlansText(raw, fenced, resolution_plans) ==
  Text(raw, fenced, "json",
       PyDict(<<"resolution_plans", "summary", "escalation", "affected_systems">>,
              <<resolution_plans, PyStr("Database and memory incidents"),
                PyStr("Page the DBA"), PyList(<<PyStr("database")>>)>>))

\* a plan as the generator words it for alert
GeneratedPlan(alert) ==
  PyDict(<<"alert_id", "severity", "category", "message", "recommended_actions",
           "priority", "reasoning">>,
         <<PyStr(Item(alert, "timestamp").s \o "_llm"), Item(alert, "severity"),
           Item(alert, "category"), Item(alert, "message"),
           PyList(<<PyStr("Restart the service")>>), PyInt(1), PyStr("Known fault")>>)

ResolutionResponses ==
  { NoText,
    Text("I could not analyse the alerts.", FALSE, "none", PyNone),
    Text("{resolution_plans: [", FALSE, "broken", PyNone),
    MockResponse,
    ErrorResponse,
    Text("{summary: ok}", FALSE, "json", With(EmptyDict, "summary", PyStr("ok"))),
    PlansText("plans: none", FALSE, EmptyList),
    PlansText("plans: text", FALSE, PyStr("see the runbook")),
    PlansText("plans: number", FALSE, PyInt(2)) }
  \cup { PlansText("plans", TRUE, PyList(MapSeq(GeneratedPlan, items))) :
           items \in SeqsUpTo(TriagedRecords, 2) \ {<<>>} }

ResolutionEnvs ==
  {Env(TRUE, NoText, TRUE)}
  \cup {Env(FALSE, response, template_ok) :
          response \in ResolutionResponses, template_ok \in BOOLEAN}

\* whether ', '.join(v) is defined: v is a str, or a list or dict of str
Joinable(v) ==
  \/ v.t \in {"str", "dict"}
  \/ v.t = "list" /\ \A item \in Range(v.vals) : item.t = "str"

\* an output whose alerts keep only what the prompt is given of them
SummaryOutputTrimmed(alerts, llm_summary) ==
  PyDict(<<"alerts", "llm_summary">>,
         <<PyList([i \in 1..len(alerts) |->
                     PyDict(<<"timestamp", "level", "message">>,
                            <<get(alerts.vals[i], "timestamp", PyNone),
                              get(alerts.vals[i], "level", PyNone),
                              get(alerts.vals[i], "message", PyNone)>>)]),
           llm_summary>>)

\* the dict LLMAlertSummaryAgent.run returns
SummaryOutput(alerts, llm_summary) ==
  PyDict(<<"alerts", "llm_summary">>, <<alerts, llm_summary>>)

LLMSummary(summary, categories, severity_breakdown, root_causes) ==
  PyDict(<<"summary", "categories", "severity_breakdown", "root_causes">>,
         <<summary, categories, severity_breakdown, root_causes>>)

\* LLMAlertSummaryAgent._parse_llm_response
summary_parse_llm_response(response) ==
  LET parsed == extract_json_block(response)
  IN IF Truthy(parsed)
     THEN LLMSummary(get(parsed, "summary", PyStr("Summary not available")),
                     get(parsed, "categories", EmptyList),
                     get(parsed, "severity_breakdown", EmptyDict),
                     get(parsed, "root_causes", EmptyList))
     ELSE LLMSummary(PyStr(IF response.raw # "" THEN response.raw ELSE "No summary available"),
                     EmptyList, EmptyDict, EmptyList)

\* LLMAlertSummaryAgent._generate_fallback_summary, the levels being str
generate_fallback_summary(alerts) ==
  LET levels == Distinct([i \in 1..len(alerts) |->
                            get(alerts.vals[i], "level", PyStr("UNKNOWN"))])
      count(level) == Cardinality({i \in 1..len(alerts) :
                                     get(alerts.vals[i], "level", PyStr("UNKNOWN")) = level})
  IN LLMSummary(
       PyStr("Detected " \o ToString(len(alerts)) \o " alerts across "
               \o ToString(Len(levels)) \o " severity levels."),
       PyList(levels),
       PyDict([i \in 1..Len(levels) |-> levels[i].s],
              [i \in 1..Len(levels) |-> PyInt(count(levels[i]))]),
       PyList(<<PyStr("Analysis unavailable - LLM call failed")>>))

NoAlertsOutput ==
  SummaryOutput(EmptyList,
                LLMSummary(PyStr("No alerts detected."), EmptyList, EmptyDict, EmptyList))

\* whether LLMAlertSummaryAgent.run reaches self.llm_client.generate(prompt)
summary_generates(input_data, e) ==
  /\ Truthy(input_data)
  /\ isinstance(input_data, "list")
  /\ \A alert \in Range(input_data.vals) : isinstance(alert, "dict")
  /\ e.template_ok

\* LLMAlertSummaryAgent.run
summary_run(input_data, e) ==
  IF ~Truthy(input_data) THEN Value(NoAlertsOutput)
  ELSE IF ~isinstance(input_data, "list") THEN Exception("AttributeError")
  ELSE IF \E alert \in Range(input_data.vals) : ~isinstance(alert, "dict")
    THEN Exception("AttributeError")
  ELSE IF ~e.template_ok THEN Exception("KeyError")
  ELSE
    LET llm_summary == summary_parse_llm_response(e.response)
    IN IF e.gen_raises \/ ~Joinable(Item(llm_summary, "categories"))
       THEN Value(SummaryOutput(input_data, generate_fallback_summary(input_data)))
       ELSE Value(SummaryOutput(input_data, llm_summary))

SummaryInputs == {PyList(items) : items \in SeqsUpTo(AlertRecords, MaxAlerts)}

\* an alert summary as JSON text with the given categories
SummaryText(raw, fenced, categories) ==
  Text(raw, fenced, "json",
       LLMSummary(PyStr("Database outage and memory pressure"), categories,
                  With(EmptyDict, "ERROR", PyInt(2)),
                  PyList(<<PyStr("Connection pool exhausted")>>)))

SummaryResponses ==
  { NoText,
    Text("The alerts look serious.", FALSE, "none", PyNone),
    Text("{summary: ", FALSE, "broken", PyNone),
    Text("{}", FALSE, "json", EmptyDict),
    MockResponse,
    ErrorResponse,
    SummaryText("summary", FALSE, PyList(<<PyStr("database"), PyStr("memory")>>)),
    SummaryText("fenced summary", TRUE, EmptyList),
    SummaryText("summary with a number", FALSE, PyInt(2)) }

SummaryEnvs ==
  {Env(TRUE, NoText, TRUE)}
  \cup {Env(FALSE, response, template_ok) :
          response \in SummaryResponses, template_ok \in BOOLEAN}

\* the surroundings of OpenAIClient.generate: self.enabled, whether
\* OpenAI(api_key=...) and chat.completions.create(...) succeed, and the
\* content of the completion
ClientEnv(enabled, client_ok, api_ok, response) ==
  [enabled |-> enabled, client_ok |-> client_ok, api_ok |-> api_ok, response |-> response]

Generated(outcome, ops) == [outcome |-> outcome, io |-> ops]

\* OpenAIClient.generate: what it returns or raises, and what it did on the
\* way (constructing the client, sending the request)
generate(prompt, e) ==
  IF ~e.enabled THEN Generated(Value(MockResponse), <<>>)
  ELSE IF ~e.client_ok THEN Generated(Exception("OpenAIError"), <<"client">>)
  ELSE IF ~e.api_ok THEN Generated(Value(ErrorResponse), <<"client", "request">>)
  ELSE Generated(Value(e.response), <<"client", "request">>)

Prompts == {PyStr("You are an AI alert summarizer."), PyStr("")}

ClientEnvs ==
  { ClientEnv(enabled, client_ok, api_ok, response) :
      enabled \in BOOLEAN, client_ok \in BOOLEAN, api_ok \in BOOLEAN,
      response \in {NoText, Text("All systems nominal.", FALSE, "none", PyNone),
                    AnalysisText("analysis HIGH", FALSE, PyStr("HIGH"), EmptyList)} }

AgentNames ==
  {"openai_client", "llm_alert_summary_agent", "triage_agent", "llm_resolution_agent",
   "llm_governance_agent"}

AgentInputs(name) ==
  CASE name = "llm_governance_agent" -> GovernanceInputs
    [] name = "triage_agent" -> TriageInputs
    [] name = "llm_resolution_agent" -> ResolutionInputs
    [] name = "llm_alert_summary_agent" -> SummaryInputs
    [] name = "openai_client" -> Prompts

AgentEnvs(name) ==
  CASE name = "llm_governance_agent" -> GovernanceEnvs
    [] name = "llm_resolution_agent" -> ResolutionEnvs
    [] name = "llm_alert_summary_agent" -> SummaryEnvs
    [] name = "openai_client" -> ClientEnvs
    [] OTHER -> {NoEnv}

AgentFiles(name) ==
  CASE name = "llm_governance_agent" -> GovernanceFiles
    [] OTHER -> {NoFile}

\* an agent constructed and about to be called once, by a unit test or by a
\* caller other than the executor
InitAgents ==
  /\ InitExecutor
  /\ pc = "idle"
  /\ vname \in AgentNames
  /\ vdata \in AgentInputs(vname)
  /\ env \in AgentEnvs(vname)
  /\ store \in AgentFiles(vname)
  /\ store_before = store
  /\ io = <<>>
  /\ prompts = <<>>
  /\ vresult = Returns(PyNone)
  /\ vpc = "ready"

CallLLMGovernanceAgent ==
  /\ vpc = "ready" /\ vname = "llm_governance_agent"
  /\ vresult' = AgentResult(governance_run(vdata, env, store), vdata)
  /\ prompts' = IF governance_generates(vdata, env, store) THEN <<vname>> ELSE <<>>
  /\ vpc' = "called"
  /\ UNCHANGED <<vname, vdata, env, store, store_before, io, runvars>>

CallTriageAgent ==
  /\ vpc = "ready" /\ vname = "triage_agent"
  /\ vresult' = AgentResult(triage_run(vdata).outcome, triage_run(vdata).data)
  /\ vpc' = "called"
  /\ UNCHANGED <<vname, vdata, env, store, store_before, io, prompts, runvars>>

CallLLMResolutionAgent ==
  /\ vpc = "ready" /\ vname = "llm_resolution_agent"
  /\ vresult' = AgentResult(resolution_run(vdata, env), vdata)
  /\ prompts' = IF resolution_generates(vdata, env) THEN <<vname>> ELSE <<>>
  /\ vpc' = "called"
  /\ UNCHANGED <<vname, vdata, env, store, store_before, io, runvars>>

CallLLMAlertSummaryAgent ==
  /\ vpc = "ready" /\ vname = "llm_alert_summary_agent"
  /\ vresult' = AgentResult(summary_run(vdata, env), vdata)
  /\ prompts' = IF summary_generates(vdata, env) THEN <<vname>> ELSE <<>>
  /\ vpc' = "called"
  /\ UNCHANGED <<vname, vdata, env, store, store_before, io, runvars>>

CallGenerate ==
  /\ vpc = "ready" /\ vname = "openai_client"
  /\ vresult' = AgentResult(generate(vdata, env).outcome, vdata)
  /\ io' = generate(vdata, env).io
  /\ vpc' = "called"
  /\ UNCHANGED <<vname, vdata, env, store, store_before, prompts, runvars>>

NextAgents ==
  \/ CallGenerate
  \/ CallLLMAlertSummaryAgent
  \/ CallTriageAgent
  \/ CallLLMResolutionAgent
  \/ CallLLMGovernanceAgent

SpecAgents == InitAgents /\ [][NextAgents]_vars

\* ------------------------------------------------------------------------
\* OpsLogAgent called again and again on one file
\* ------------------------------------------------------------------------
OpsLogPlanLists ==
  { EmptyList,
    PyList(<<LoggedPlan(PyInt(2))>>),
    PyList(<<LoggedPlan(PyInt(2)), LoggedPlan(PyInt(1))>>),
    PyList(<<PlanNoId(PyNone)>>),
    PyList(<<LoggedPlan(PyStr("high"))>>) }

\* the files an OpsLogAgent may find when it is constructed
OpsLogFiles ==
  { NoFile,
    CorruptFile,
    File("json", EmptyList),
    File("json", With(EmptyDict, "pipeline_name", PyStr("incident_detection"))) }

InitOpsLog ==
  /\ InitExecutor
  /\ pc = "idle"
  /\ vname = "opslog_agent"
  /\ vdata = PyNone
  /\ vresult = Returns(PyNone)
  /\ vpc = "ready"
  /\ env = NoEnv
  /\ store \in OpsLogFiles
  /\ store_before = store
  /\ io = <<>>
  /\ prompts = <<>>

\* one call opslog.run(resolution_plans)
OpsLogRun ==
  /\ vname = "opslog_agent" /\ vpc \in {"ready", "called"}
  /\ Len(existing_logs(store)) < MaxEntries
  /\ \E resolution_plans \in OpsLogPlanLists, now \in 1..MaxClock, disk \in DiskOutcomes :
       LET called == opslog_run(resolution_plans, store, now, disk)
       IN /\ vdata' = resolution_plans
          /\ vresult' = AgentResult(called.outcome, resolution_plans)
          /\ store' = called.file
          /\ store_before' = store
          /\ io' = called.io
          /\ vpc' = "called"
  /\ UNCHANGED <<vname, env, prompts, runvars>>

NextOpsLog ==
  \/ OpsLogRun

SpecOpsLog == InitOpsLog /\ [][NextOpsLog]_vars

\* ------------------------------------------------------------------------
\* PipelineExecutor with the OpsLogAgent that writes the audit log file
\* ------------------------------------------------------------------------
\* the files a run may find at output_path
AuditFiles ==
  { NoFile,
    File("json", PyList(<<create_audit_entry(PyList(<<LoggedPlan(PyInt(2))>>), 1).val>>)) }

InitAudit ==
  /\ InitExecutor
  /\ pc = "call"
  /\ vname = "none" /\ vdata = PyNone /\ vresult = Returns(PyNone) /\ vpc = "off"
  /\ env = NoEnv
  /\ store \in AuditFiles
  /\ store_before = store
  /\ io = <<>>
  /\ prompts = <<>>

\* the first two statements of stage 5 with OpsLogAgent.run as the collaborator
OpsLogAgentCall ==
  /\ pc = "call" /\ stage = 5
  /\ execution_log' = Append(execution_log, log_stage(StageOrder[5], "started", PyInt(0)))
  /\ call_order' = Append(call_order, 5)
  /\ call_args' = Append(call_args, Item(frame.llm_resolution_output, "resolution_plans"))
  /\ \E now \in 1..MaxClock, disk \in DiskOutcomes :
       LET called == opslog_run(Item(frame.llm_resolution_output, "resolution_plans"),
                                store, now, disk)
       IN /\ store' = called.file
          /\ store_before' = store
          /\ io' = called.io
          /\ IF called.outcome.ok
             THEN /\ frame' = [frame EXCEPT !["summary"] = called.outcome.val]
                  /\ returned' = Append(returned, called.outcome.val)
                  /\ pc' = "validate"
                  /\ UNCHANGED <<exc, origin, failed_stage>>
             ELSE /\ exc' = CollaboratorError(called.outcome.cls)
                  /\ origin' = "collaborator"
                  /\ failed_stage' = 5
                  /\ pc' = "raised"
                  /\ UNCHANGED <<frame, returned>>
  /\ UNCHANGED <<stage, handler, result, vname, vdata, vresult, vpc, env, prompts>>

NextAudit ==
  \/ MonitorCall \/ MonitorValidate
  \/ LLMSummaryCall \/ LLMSummaryValidate
  \/ TriageCall \/ TriageValidate
  \/ LLMResolutionCall \/ LLMResolutionValidate
  \/ OpsLogAgentCall \/ OpsLogValidate
  \/ GovernanceCall \/ GovernanceValidate
  \/ ExceptValueError \/ ExceptException

SpecAudit == InitAudit /\ [][NextAudit]_vars

\* ------------------------------------------------------------------------
\* PipelineExecutor with the six agents it constructs
\* ------------------------------------------------------------------------

\* a line of the monitored log file
LogLine(timestamp, level, message) ==
  [timestamp |-> timestamp, level |-> level, message |-> message]

\* the log file at log_path: whether it exists, its lines, and how many of
\* them can be read before the read fails
LogFile(exists, lines, readable) ==
  [exists |-> exists, lines |-> lines, readable |-> readable]

\* MonitorAgent._parse_log_line
parse_log_line(line, line_num) ==
  IF line.level \in {"ERROR", "WARNING"}
  THEN AlertRecord(line.timestamp, line.level, line.message, line_num)
  ELSE PyNone

\* MonitorAgent.run: a missing file yields no alerts, a failing read the
\* alerts collected so far
monitor_run(log) ==
  IF ~log.exists THEN Value(EmptyList)
  ELSE LET parsed == [n \in 1..log.readable |-> parse_log_line(log.lines[n], n)]
       IN Value(PyList(SelectSeq(parsed, LAMBDA alert : Truthy(alert))))

DatabaseTimeout == LogLine("2025-01-01 00:00:00", "ERROR", "Database connection timeout")

OutOfMemory == LogLine("2025-01-01 00:00:05", "ERROR", "Service CRASHED: out of memory")

Heartbeat == LogLine("2025-01-01 00:00:03", "INFO", "Heartbeat received")

LogFiles ==
  { LogFile(FALSE, <<>>, 0),
    LogFile(TRUE, <<Heartbeat>>, 1),
    LogFile(TRUE, <<DatabaseTimeout>>, 1),
    LogFile(TRUE, <<DatabaseTimeout, Heartbeat, OutOfMemory>>, 3),
    LogFile(TRUE, <<Heartbeat, OutOfMemory>>, 1) }

\* the surroundings of a run(): the log file, the OpenAIClient settings and
\* the service behind it, how the service answers ("prose": no JSON, "json":
\* the object the prompt asks for, "loose": that object with a value of
\* another type), and the agents whose prompt template format() rejects
Surroundings(log, client, answers, broken) ==
  [log |-> log, client |-> client, answers |-> answers, broken |-> broken]

Prose == Text("All systems nominal.", FALSE, "none", PyNone)

\* the text the service returns to the named agent for its input
Answer(name, input_data, answers) ==
  CASE answers = "prose" -> Prose
    [] answers = "json" /\ name = "LLMAlertSummaryAgent" ->
         SummaryText("summary", FALSE, PyList(<<PyStr("database")>>))
    [] answers = "json" /\ name = "LLMResolutionAgent" ->
         PlansText("plans", TRUE, PyList(MapSeq(GeneratedPlan, input_data.vals)))
    [] answers = "json" /\ name = "LLMGovernanceAgent" ->
         AnalysisText("analysis HIGH", FALSE, PyStr("HIGH"), PyList(<<PyStr("No postmortem")>>))
    [] answers = "loose" /\ name = "LLMAlertSummaryAgent" ->
         SummaryText("summary with a number", FALSE, PyInt(2))
    [] answers = "loose" /\ name = "LLMResolutionAgent" ->
         PlansText("plans: text", FALSE, PyStr("see the runbook"))
    [] answers = "loose" /\ name = "LLMGovernanceAgent" ->
         AnalysisText("analysis 3", FALSE, PyInt(3), EmptyList)

\* what self.llm_client.generate(prompt) and self.prompt_template.format()
\* do for the named agent in surroundings s
AgentEnv(name, input_data, s) ==
  LET generated == generate(PyStr(name),
                            ClientEnv(s.client.enabled, s.client.client_ok, s.client.api_ok,
                                      Answer(name, input_data, s.answers)))
  IN Env(~generated.outcome.ok,
         IF generated.outcome.ok THEN generated.outcome.val ELSE NoText,
         name \notin s.broken)

RealSurroundings ==
  { Surroundings(log, ClientEnv(enabled, client_ok, api_ok, NoText), answers, broken) :
      log \in LogFiles, enabled \in BOOLEAN, client_ok \in BOOLEAN, api_ok \in BOOLEAN,
      answers \in {"prose", "json", "loose"}, broken \in {{}, {"LLMGovernanceAgent"}, {"LLMResolutionAgent"}} }

InitReal ==
  /\ InitExecutor
  /\ pc = "call"
  /\ vname = "none" /\ vdata = PyNone /\ vresult = Returns(PyNone) /\ vpc = "off"
  /\ env \in RealSurroundings
  /\ store \in AuditFiles
  /\ store_before = store
  /\ io = <<>>
  /\ prompts = <<>>

\* the first two statements of stage i with the agent's run() as the
\* collaborator: outcome is what run(arg) returns or raises, generates
\* whether it calls the text generator
AgentStageCall(i, arg, outcome, local, generates) ==
  /\ pc = "call" /\ stage = i
  /\ execution_log' = Append(execution_log, log_stage(StageOrder[i], "started", PyInt(0)))
  /\ call_order' = Append(call_order, i)
  /\ call_args' = Append(call_args, arg)
  /\ prompts' = IF generates THEN Append(prompts, StageOrder[i]) ELSE prompts
  /\ IF outcome.ok
     THEN /\ frame' = [frame EXCEPT ![local] = outcome.val]
          /\ returned' = Append(returned, outcome.val)
          /\ pc' = "validate"
          /\ UNCHANGED <<exc, origin, failed_stage>>
     ELSE /\ exc' = CollaboratorError(outcome.cls)
          /\ origin' = "collaborator"
          /\ failed_stage' = i
          /\ pc' = "raised"
          /\ UNCHANGED <<frame, returned>>
  /\ UNCHANGED <<stage, handler, result, vname, vdata, vresult, vpc, env, store,
                 store_before, io>>

MonitorAgentCall ==
  AgentStageCall(1, PyNone, monitor_run(env.log), "alerts", FALSE)

LLMAlertSummaryAgentCall ==
  LET e == AgentEnv(StageOrder[2], frame.alerts, env) IN
  AgentStageCall(2, frame.alerts, summary_run(frame.alerts, e), "llm_output",
                 summary_generates(frame.alerts, e))

TriageAgentCall ==
  AgentStageCall(3, Item(frame.llm_output, "alerts"),
                 triage_run(Item(frame.llm_output, "alerts")).outcome, "triaged", FALSE)

LLMResolutionAgentCall ==
  LET e == AgentEnv(StageOrder[4], frame.triaged, env) IN
  AgentStageCall(4, frame.triaged, resolution_run(frame.triaged, e),
                 "llm_resolution_output", resolution_generates(frame.triaged, e))

\* a Governance stage that is handed a summary without its status
LLMGovernanceAgentCallBlind ==
  LET e == AgentEnv(StageOrder[6], frame.summary, env)
      blind == PyDict(<<"count">>, <<get(frame.summary, "count", PyInt(0))>>)
  IN AgentStageCall(6, blind, governance_run(blind, e, store),
                    "governance_output", governance_generates(blind, e, store))

LLMGovernanceAgentCall ==
  LET e == AgentEnv(StageOrder[6], frame.summary, env) IN
  AgentStageCall(6, frame.summary, governance_run(frame.summary, e, store),
                 "governance_output", governance_generates(frame.summary, e, store))

NextReal ==
  \/ MonitorAgentCall \/ MonitorValidate
  \/ LLMAlertSummaryAgentCall \/ LLMSummaryValidate
  \/ TriageAgentCall \/ TriageValidate
  \/ LLMResolutionAgentCall \/ LLMResolutionValidate
  \/ OpsLogAgentCall \/ OpsLogValidate
  \/ LLMGovernanceAgentCall \/ GovernanceValidate
  \/ ExceptValueError \/ ExceptException

SpecReal == InitReal /\ [][NextReal]_vars

\* ------------------------------------------------------------------------
\* run() called again on the executor it was called on before
\* ------------------------------------------------------------------------
RerunSurroundings ==
  { Surroundings(LogFile(FALSE, <<>>, 0), ClientEnv(FALSE, TRUE, TRUE, NoText), "prose", {}),
    Surroundings(LogFile(TRUE, <<DatabaseTimeout>>, 1), ClientEnv(TRUE, TRUE, TRUE, NoText),
                 "loose", {}),
    Surroundings(LogFile(TRUE, <<DatabaseTimeout>>, 1), ClientEnv(FALSE, TRUE, TRUE, NoText),
                 "prose", {"LLMGovernanceAgent"}) }

InitRerun ==
  /\ InitExecutor
  /\ pc = "call"
  /\ vname = "none" /\ vdata = PyNone /\ vresult = Returns(PyNone) /\ vpc = "off"
  /\ env \in RerunSurroundings
  /\ store = NoFile
  /\ store_before = store
  /\ io = <<>>
  /\ prompts = <<>>

\* the number of run() calls entered so far
Runs ==
  Cardinality({k \in 1..Len(execution_log) :
                 /\ execution_log[k].stage = StageOrder[1]
                 /\ execution_log[k].status = "started"})

\* run() is entered again after it returned or raised: its locals are new,
\* self.execution_log and the audit log file are what the call before left
RunAgain ==
  /\ pc \in {"returned", "failed"}
  /\ Runs < MaxRuns
  /\ frame' = [alerts |-> PyNone, llm_output |-> PyNone, triaged |-> PyNone,
               llm_resolution_output |-> PyNone, summary |-> PyNone,
               governance_output |-> PyNone]
  /\ stage' = 1
  /\ pc' = "call"
  /\ exc' = NoException
  /\ handler' = "none"
  /\ result' = PyNone
  /\ call_order' = <<>>
  /\ call_args' = <<>>
  /\ returned' = <<>>
  /\ origin' = "none"
  /\ failed_stage' = 0
  /\ prompts' = <<>>
  /\ UNCHANGED <<execution_log, vname, vdata, vresult, vpc, env, store, store_before, io>>

NextRerun == NextReal \/ RunAgain

SpecRerun == InitRerun /\ [][NextRerun]_vars

\* ------------------------------------------------------------------------
\* Properties
\* ------------------------------------------------------------------------
\* the validator of stage i applied to data
Validator(i, data) ==
  CASE i = 1 -> validate_monitor_output(data)
    [] i = 2 -> validate_llm_summary_output(data)
    [] i = 3 -> validate_triage_output(data)
    [] i = 4 -> validate_llm_resolution_output(data)
    [] i = 5 -> validate_opslog_output(data)
    [] i = 6 -> validate_governance_output(data)

\* the stages whose 'started' entry is in the execution log
StartedStages ==
  {i \in Stages : \E e \in 1..Len(execution_log) :
      execution_log[e].stage = StageOrder[i] /\ execution_log[e].status = "started"}

\* C1: fail-fast.  Once the validator of stage k has rejected the output of
\* stage k's collaborator, no collaborator of a stage after k has been or is
\* ever invoked in that run.
C1_FailFast ==
  origin = "validator" =>
    /\ \A j \in 1..Len(call_order) : call_order[j] <= failed_stage
    /\ pc \in {"raised", "failed"}

\* the Triage output was rejected after three collaborators had run
C1_Witness ==
  /\ pc = "failed" /\ origin = "validator" /\ failed_stage = 3
  /\ call_order = <<1, 2, 3>>

\* C2: the collaborators are invoked at most once each and in the fixed
\* order; stage i+1's collaborator is invoked only after stage i's output has
\* passed stage i's validator; after a failure at stage k (exception or
\* validation error) no later stage is started.
C2_Sequential ==
  /\ \A j \in 1..Len(call_order) : call_order[j] = j
  /\ Len(call_order) <= Len(StageOrder)
  /\ \A j \in 2..Len(call_order) :
        /\ Len(returned) >= j - 1
        /\ Validator(j - 1, returned[j - 1]).ok
  /\ failed_stage # 0 =>
        /\ Len(call_order) = failed_stage
        /\ StartedStages = 1..failed_stage
        /\ pc \in {"raised", "failed"}

\* the LLMResolution collaborator raised after three validated stages
C2_Witness ==
  /\ pc = "failed" /\ origin = "collaborator" /\ failed_stage = 4
  /\ call_order = <<1, 2, 3, 4>>
  /\ Len(returned) = 3

\* C3: when run() ends with an exception at stage k, a 'failed' entry for
\* stage k is in the execution log by the time the exception has left run().
C3_FailedLogged ==
  pc = "failed" =>
    \E e \in 1..Len(execution_log) :
      /\ execution_log[e].stage = StageOrder[failed_stage]
      /\ execution_log[e].status = "failed"

\* C4: a validation failure is distinguishable from an exception raised by
\* a collaborator (what run() catches as a data validation error is a
\* validation failure, and only that), and its error carries the name of the
\* failing stage with the offending field names or element index.
C4_DistinguishableViolation ==
  pc = "failed" =>
    /\ handler = "ValueError" <=> origin = "validator"
    /\ origin = "validator" =>
         /\ exc.subject = StageOrder[failed_stage]
         /\ exc.complaint # ""

\* the stage contracts a payload has to satisfy
IsRecordWith(v, fields) == isinstance(v, "dict") /\ fields \subseteq Range(v.keys)

AlertFields == {"timestamp", "level", "message"}

TriagedFields == {"timestamp", "level", "message", "severity", "category"}

PlanFields == {"alert_id", "severity", "category", "recommended_actions"}

SummaryFields == {"status", "count", "timestamp"}

AnalysisFields == {"risk", "escalation", "compliance_issues", "commentary"}

WellFormedPlan(plan) ==
  /\ IsRecordWith(plan, PlanFields)
  /\ isinstance(Item(plan, "recommended_actions"), "list")

SatisfiesContract(name, data) ==
  CASE name = "monitor" ->
         isinstance(data, "list") /\ \A a \in Range(data.vals) : IsRecordWith(a, AlertFields)
    [] name = "llm_summary" ->
         /\ IsRecordWith(data, {"alerts", "llm_summary"})
         /\ isinstance(Item(data, "alerts"), "list")
         /\ isinstance(Item(data, "llm_summary"), "dict")
    [] name = "triage" ->
         isinstance(data, "list") /\ \A a \in Range(data.vals) : IsRecordWith(a, TriagedFields)
    [] name = "llm_resolution" ->
         /\ IsRecordWith(data, {"resolution_plans", "llm_resolution_summary"})
         /\ isinstance(Item(data, "resolution_plans"), "list")
         /\ isinstance(Item(data, "llm_resolution_summary"), "dict")
         /\ \A plan \in Range(Item(data, "resolution_plans").vals) : WellFormedPlan(plan)
    [] name = "opslog" -> IsRecordWith(data, SummaryFields)
    [] name = "governance" ->
         /\ IsRecordWith(data, {"audit_summary", "governance_analysis"})
         /\ isinstance(Item(data, "audit_summary"), "dict")
         /\ IsRecordWith(Item(data, "governance_analysis"), AnalysisFields)

\* C5: a validator given a payload that satisfies its stage's contract
\* returns that very payload, and a validator leaves its argument as it was
\* whether it accepts or rejects it.
C5_IdentityPassthrough ==
  vpc = "called" =>
    /\ vresult.data = vdata
    /\ SatisfiesContract(vname, vdata) => (vresult.ok /\ vresult.ret = vdata)

\* the Triage validator accepted a list of two triaged alerts
C5_Witness ==
  /\ vpc = "called" /\ vname = "triage"
  /\ SatisfiesContract(vname, vdata) /\ len(vdata) = 2
  /\ vresult.ok /\ vresult.ret = vdata

\* seq lists exactly the members of S, each once
ListsExactly(seq, S) == Range(seq) = S /\ Len(seq) = Cardinality(S)

\* the required fields absent from the dict d
Absent(fields, d) == fields \ Range(d.keys)

\* the 1-based positions of the elements of a list that are not a dict
\* carrying fields
Offending(data, fields) ==
  {k \in 1..len(data) : ~IsRecordWith(data.vals[k], fields)}

FirstOffending(data, fields) ==
  CHOOSE k \in Offending(data, fields) : \A m \in Offending(data, fields) : k <= m

\* the error is a missing-fields complaint that lists exactly S
ReportsMissing(res, S) ==
  /\ ~res.ok
  /\ res.err.complaint \in {"missing required fields", "output missing required fields"}
  /\ ListsExactly(res.err.missing, S)

\* C6 for a list validator: when the first element that breaks the contract
\* is a dict lacking required fields, the error names that element's index
\* and exactly its absent fields
C6_ListCase(fields) ==
  (isinstance(vdata, "list") /\ Offending(vdata, fields) # {}) =>
    LET k == FirstOffending(vdata, fields) IN
    isinstance(vdata.vals[k], "dict") =>
      /\ ReportsMissing(vresult, Absent(fields, vdata.vals[k]))
      /\ vresult.err.idx = k - 1

\* C6 for a dict validator: a dict lacking required fields is rejected with
\* exactly its absent fields
C6_DictCase(fields) ==
  (isinstance(vdata, "dict") /\ Absent(fields, vdata) # {}) =>
    /\ ReportsMissing(vresult, Absent(fields, vdata))
    /\ vresult.err.idx = -1

\* C6: a validator given a payload of the right container type that lacks
\* required fields raises an error listing exactly the absent required
\* fields (of the offending element, with its index, for list payloads),
\* whatever the order of the fields in the payload.
C6_ExactMissingFields ==
  vpc = "called" =>
    CASE vname = "monitor" -> C6_ListCase(AlertFields)
      [] vname = "triage" -> C6_ListCase(TriagedFields)
      [] vname = "llm_summary" -> C6_DictCase({"alerts", "llm_summary"})
      [] vname = "llm_resolution" -> C6_DictCase({"resolution_plans", "llm_resolution_summary"})
      [] vname = "opslog" -> C6_DictCase(SummaryFields)
      [] vname = "governance" ->
           /\ C6_DictCase({"audit_summary", "governance_analysis"})
           /\ ( /\ IsRecordWith(vdata, {"audit_summary", "governance_analysis"})
                /\ isinstance(Item(vdata, "governance_analysis"), "dict")
                /\ Absent(AnalysisFields, Item(vdata, "governance_analysis")) # {} )
              => ReportsMissing(vresult,
                                Absent(AnalysisFields, Item(vdata, "governance_analysis")))

\* the second triaged alert lacks two fields, given out of order, and the
\* validator named exactly these two and the index 1
C6_Witness ==
  /\ vpc = "called" /\ vname = "triage" /\ len(vdata) = 2
  /\ vdata.vals[1].keys = <<"category", "severity", "message", "level", "timestamp">>
  /\ ~vresult.ok
  /\ vresult.err.idx = 1
  /\ Range(vresult.err.missing) = {"level", "severity"}

\* what stage i is wired to receive, from what the collaborators returned
Wired(i) ==
  CASE i = 1 -> PyNone
    [] i = 2 -> returned[1]
    [] i = 3 -> Item(returned[2], "alerts")
    [] i = 4 -> returned[3]
    [] i = 5 -> Item(returned[4], "resolution_plans")
    [] i = 6 -> returned[5]

\* C7: fixed wiring.  Each collaborator receives the output of the stage
\* right before it and nothing else: Monitor's output whole, the 'alerts'
\* field of the summary output, Triage's output whole, the
\* 'resolution_plans' field of the resolution output, the AuditSummary whole.
C7_FixedWiring ==
  \A j \in 1..Len(call_order) :
    /\ Len(returned) >= call_order[j] - 1
    /\ call_args[j] = Wired(call_order[j])

\* a full run in which the summary stage returned alerts other than the
\* Monitor's and the resolution stage returned plans
C7_Witness ==
  /\ pc = "returned" /\ Len(call_args) = 6
  /\ len(returned[1]) = 2
  /\ Item(returned[2], "alerts") = OtherAlerts
  /\ call_args[3] = OtherAlerts
  /\ len(call_args[5]) = 3

\* the stages whose output has passed validation and whose 'completed'
\* entry is due
Passed(i) ==
  /\ Len(returned) >= i
  /\ Validator(i, returned[i]).ok
  /\ ~(stage = i /\ pc = "validate")

\* the item count of the payload of stage i, i < 6
ItemCount(i) ==
  CASE i = 1 -> PyInt(len(returned[1]))
    [] i = 2 -> PyInt(len(Item(returned[2], "alerts")))
    [] i = 3 -> PyInt(len(returned[3]))
    [] i = 4 -> PyInt(len(Item(returned[4], "resolution_plans")))
    [] i = 5 -> Item(returned[5], "count")

HasCompleted(i, data_count) ==
  \E e \in 1..Len(execution_log) :
    execution_log[e] = [stage |-> StageOrder[i], status |-> "completed",
                        data_count |-> data_count]

\* C8 as stated: every stage with a validated output, the Governance stage
\* included, logs 'completed' with a count taken from its payload: the list
\* length, or a count field of the dict payload (for the Governance payload:
\* the count of its audit_summary).
C8_CountFromPayload ==
  \A i \in Stages : Passed(i) =>
    IF i < 6 THEN HasCompleted(i, ItemCount(i))
    ELSE IsRecordWith(Item(returned[6], "audit_summary"), {"count"}) =>
           HasCompleted(6, Item(Item(returned[6], "audit_summary"), "count"))

\* C8 amended: stages 1-5 log the list length (Monitor, Triage), the length
\* of the alerts / resolution_plans field (LLMAlertSummary, LLMResolution) or
\* the count field (OpsLog); the Governance stage logs the constant 1.
C8_CompletedCount ==
  \A i \in Stages : Passed(i) =>
    IF i < 6 THEN HasCompleted(i, ItemCount(i)) ELSE HasCompleted(6, PyInt(1))

\* a full run with two alerts, three plans and an AuditSummary counting 7
C8_Witness ==
  /\ pc = "returned"
  /\ len(returned[1]) = 2
  /\ len(Item(returned[4], "resolution_plans")) = 3
  /\ Item(returned[5], "count") = PyInt(7)
  /\ HasCompleted(5, PyInt(7))
  /\ HasCompleted(6, PyInt(1))

\* C9: the resolution-stage check rejects an output with a plan that lacks
\* alert_id, severity, category or recommended_actions or whose
\* recommended_actions is not a list, so the OpsLog collaborator is never
\* handed such a plan.
C9_PlansChecked ==
  \A j \in 1..Len(call_order) :
    call_order[j] = 5 => \A plan \in Range(call_args[j].vals) : WellFormedPlan(plan)

\* C10: run() returns only a dict whose audit_summary is a dict and whose
\* governance_analysis is a dict with risk, escalation, compliance_issues
\* and commentary.
C10_TerminalShape ==
  pc = "returned" =>
    /\ IsRecordWith(result, {"audit_summary", "governance_analysis"})
    /\ isinstance(Item(result, "audit_summary"), "dict")
    /\ IsRecordWith(Item(result, "governance_analysis"), AnalysisFields)

\* the latest call was a call of LLMGovernanceAgent.run that went past the
\* no-data branch
GovernanceAnalysed ==
  /\ vpc = "called" /\ vname = "llm_governance_agent"
  /\ get(vdata, "status", PyNone) # PyStr("no_data")

\* the text-generation step failed: the generator raised, or its response
\* holds no structured data
GenerationFailed == env.gen_raises \/ ~Truthy(extract_json_block(env.response))

\* risk and escalation of the analysis a call returned
Assessment(res) ==
  LET analysis == Item(res.ret, "governance_analysis")
  IN <<Item(analysis, "risk").s, Item(analysis, "escalation").s>>

\* the count-threshold table
ThresholdTable(count) ==
  IF count = 0 THEN <<"low", "None required">>
  ELSE IF count <= 2 THEN <<"low", "Monitor for recurring patterns">>
  ELSE IF count <= 5 THEN <<"medium", "Review with team lead if issues persist">>
  ELSE IF count <= 10 THEN <<"high", "Escalate to on-call engineer">>
  ELSE <<"critical", "Immediate escalation to incident commander required">>

\* C11: LLMGovernanceAgent.run raises for no summary that passes the OpsLog
\* contract, and when its text generation fails (the generator raises or the
\* response holds no structured data) the returned risk and escalation are
\* those of the threshold table at the summary's count.
C11_FallbackOnFailure ==
  (GovernanceAnalysed /\ validate_opslog_output(vdata).ok) =>
    /\ vresult.ok
    /\ GenerationFailed =>
         /\ isinstance(Item(vdata, "count"), "int")
         /\ Assessment(vresult) = ThresholdTable(Item(vdata, "count").n)

\* C18: given a summary with status 'no_data', LLMGovernanceAgent.run returns
\* risk 'low', escalation 'None required' and no compliance issues.
C18_NoDataIsLow ==
  (vpc = "called" /\ vname = "llm_governance_agent"
      /\ get(vdata, "status", PyNone) = PyStr("no_data")) =>
    /\ vresult.ok
    /\ Assessment(vresult) = <<"low", "None required">>
    /\ Item(Item(vresult.ret, "governance_analysis"), "compliance_issues") = EmptyList

\* a no_data summary that reports incidents, where the generator would have
\* answered with another risk, was analysed
C18_Witness ==
  /\ vpc = "called" /\ vname = "llm_governance_agent"
  /\ get(vdata, "status", PyNone) = PyStr("no_data")
  /\ Item(vdata, "count") = PyInt(MaxCount)
  /\ env.response = MockResponse /\ env.template_ok
  /\ vresult.ok

\* the latest call ended in _generate_fallback_analysis on an integer count
FallbackApplied ==
  /\ GovernanceAnalysed
  /\ env.gen_raises
  /\ vresult.ok
  /\ isinstance(Item(vdata, "count"), "int")

\* C19: the fallback depends on the count alone: 0 gives low and 'None
\* required', 1..2 low, 3..5 medium, 6..10 high, 11 and more critical, with
\* one escalation per row, whatever the rest of the summary and the file hold.
C19_FallbackByCount ==
  FallbackApplied => Assessment(vresult) = ThresholdTable(Item(vdata, "count").n)

\* the fallback was applied to a count in the last row
C19_Witness ==
  /\ FallbackApplied
  /\ Item(vdata, "count").n >= 11
  /\ Assessment(vresult)[1] = "critical"

\* the persisted collection: the entries of the list in the file, the one
\* value of a file that holds no list, nothing for a missing or unreadable file
Collection(file) ==
  IF file.state # "json" THEN <<>>
  ELSE IF file.content.t = "list" THEN file.content.vals
  ELSE <<file.content>>

\* the latest OpsLogAgent.run returned a summary with this status
OpsLogReturned(status) ==
  /\ vpc = "called" /\ vname = "opslog_agent"
  /\ vresult.ok
  /\ Item(vresult.ret, "status") = PyStr(status)

\* C14: a call of OpsLogAgent.run with non-empty plans that returns 'logged'
\* makes the persisted collection one entry longer, puts the entry made from
\* its plans last and leaves the earlier entries as they were, in their
\* order; identical plans are logged again.
C14_AppendOne ==
  (OpsLogReturned("logged") /\ Truthy(vdata)) =>
    LET before == Collection(store_before)
        after == Collection(store)
    IN /\ Len(after) = Len(before) + 1
       /\ SubSeq(after, 1, Len(before)) = before
       /\ Item(after[Len(after)], "resolution_plans") = vdata
       /\ Item(after[Len(after)], "execution_timestamp") = Item(vresult.ret, "timestamp")

\* the same plans were logged a second time, after another entry
C14_Witness ==
  /\ OpsLogReturned("logged")
  /\ LET after == Collection(store)
     IN /\ Len(after) >= 3
        /\ after[Len(after)] = after[Len(after) - 1]
        /\ after[1] # after[Len(after)]

\* C15: when OpsLogAgent.run returns 'failed' the persisted collection is
\* what it was before the call.
C15_FailedLeavesStore ==
  OpsLogReturned("failed") => Collection(store) = Collection(store_before)

\* the summary of a call without data
NoDataSummary ==
  PyDict(<<"status", "count", "timestamp", "output_path">>,
         <<PyStr("no_data"), PyInt(0), PyNone, PyNone>>)

\* C17: OpsLogAgent.run on an empty plan list returns status 'no_data',
\* count 0, timestamp and output_path None, and neither creates, reads nor
\* rewrites the file.
C17_EmptyInputNoWrite ==
  (vpc = "called" /\ vname = "opslog_agent" /\ vdata = EmptyList) =>
    /\ vresult.ok
    /\ vresult.ret = NoDataSummary
    /\ store = store_before
    /\ io = <<>>

\* an empty plan list was given while no file existed
C17_Witness ==
  /\ vpc = "called" /\ vname = "opslog_agent" /\ vdata = EmptyList
  /\ store = NoFile /\ store_before = NoFile

\* run() failed at the Governance stage after OpsLogAgent.run returned 'logged'
GovernanceFailedAfterLogged ==
  /\ failed_stage = 6 /\ pc \in {"raised", "failed"}
  /\ Item(frame.summary, "status") = PyStr("logged")

\* C16: when run() fails at the Governance stage after the OpsLog stage
\* returned 'logged', the entry that run appended is still the last of the
\* persisted collection, and run() returns nothing: the exception leaves it.
C16_NoRollback ==
  GovernanceFailedAfterLogged =>
    LET after == Collection(store)
    IN /\ Len(after) = Len(Collection(store_before)) + 1
       /\ Item(after[Len(after)], "resolution_plans") = call_args[5]
       /\ Item(after[Len(after)], "execution_timestamp") = Item(frame.summary, "timestamp")
       /\ result = PyNone
       /\ exc # NoException

\* the Governance collaborator raised, the exception left run(), and the
\* file that held one entry before the run holds two
C16_Witness ==
  /\ GovernanceFailedAfterLogged
  /\ pc = "failed" /\ origin = "collaborator" /\ handler = "Exception"
  /\ Len(Collection(store)) = 2

\* element i of the returned list carries the fields of alert
CarriesFields(triaged_alert, alert) ==
  /\ isinstance(triaged_alert, "dict")
  /\ \A k \in Range(alert.keys) : In(k, triaged_alert) /\ Item(triaged_alert, k) = Item(alert, k)
  /\ In("severity", triaged_alert) /\ In("category", triaged_alert)
  /\ Range(triaged_alert.keys) = Range(alert.keys) \cup {"severity", "category"}

\* C20: TriageAgent.run returns, for a list of N alert records, a list of
\* length N whose element i carries every field of input element i with its
\* value, plus severity and category, and leaves the input records as given.
C20_OneToOne ==
  (vpc = "called" /\ vname = "triage_agent") =>
    /\ vresult.ok
    /\ isinstance(vresult.ret, "list")
    /\ len(vresult.ret) = len(vdata)
    /\ \A i \in 1..len(vdata) : CarriesFields(vresult.ret.vals[i], vdata.vals[i])
    /\ vresult.data = vdata

\* two different alerts were triaged, into different severities
C20_Witness ==
  /\ vpc = "called" /\ vname = "triage_agent"
  /\ len(vdata) >= 2
  /\ vdata.vals[1] # vdata.vals[2]
  /\ Item(vresult.ret.vals[1], "severity") # Item(vresult.ret.vals[2], "severity")

\* the latest call was LLMResolutionAgent.run on alerts that pass the Triage
\* contract
ResolutionCalled ==
  /\ vpc = "called" /\ vname = "llm_resolution_agent"
  /\ validate_triage_output(vdata).ok

\* an internal failure of LLMResolutionAgent.run: the generator raised, the
\* prompt could not be prepared, or the response is unusable or malformed
\* (no JSON object, no resolution_plans, or resolution_plans not a list)
ResolutionFailure ==
  \/ env.gen_raises
  \/ ~env.template_ok
  \/ LET parsed == extract_json_block(env.response)
     IN \/ ~Truthy(parsed)
        \/ ~In("resolution_plans", parsed)
        \/ ~isinstance(Item(parsed, "resolution_plans"), "list")

\* C12: LLMResolutionAgent.run raises for no list of alerts that passes the
\* Triage contract, and on every internal failure it returns the fallback
\* plans and summary computed from the input alerts.
C12_FallbackOnFailure ==
  (ResolutionCalled /\ Truthy(vdata)) =>
    /\ vresult.ok
    /\ ResolutionFailure => vresult.ret = generate_fallback_plans(vdata)

\* C13: for a list of N triaged alerts and any response of the generator,
\* LLMResolutionAgent.run returns N resolution plans, plan i being the plan
\* for alert i.
C13_OnePlanPerAlert ==
  (ResolutionCalled /\ vresult.ok) =>
    LET resolution_plans == Item(vresult.ret, "resolution_plans")
    IN /\ isinstance(resolution_plans, "list")
       /\ len(resolution_plans) = len(vdata)
       /\ \A i \in 1..len(vdata) :
            /\ isinstance(resolution_plans.vals[i], "dict")
            /\ get(resolution_plans.vals[i], "message", PyNone) = Item(vdata.vals[i], "message")

\* C21: LLMAlertSummaryAgent.run returns in 'alerts' the alert list it was
\* given, element for element, whether the generator answers with structured
\* text, with text that cannot be parsed, or raises; it returns whenever the
\* prompt can be prepared, and it leaves its argument as given.
C21_AlertsPassThrough ==
  (vpc = "called" /\ vname = "llm_alert_summary_agent") =>
    /\ env.template_ok => vresult.ok
    /\ vresult.ok =>
         /\ isinstance(vresult.ret, "dict")
         /\ In("alerts", vresult.ret)
         /\ Item(vresult.ret, "alerts") = vdata
         /\ vresult.data = vdata

\* two alerts with fields beyond those of the prompt went through while the
\* generator raised
C21_Witness ==
  /\ vpc = "called" /\ vname = "llm_alert_summary_agent"
  /\ env.gen_raises
  /\ vresult.ok
  /\ len(vdata) >= 2
  /\ In("raw_log", vdata.vals[1])
  /\ Item(vresult.ret, "alerts") = vdata

\* the latest call was a call of LLMGovernanceAgent.run that returned
GovernanceReturned ==
  /\ vpc = "called" /\ vname = "llm_governance_agent"
  /\ vresult.ok

\* C22: in every branch in which LLMGovernanceAgent.run returns (no data,
\* structured response, unparsable response, generator error) the returned
\* audit_summary is the summary passed in, and the argument is left as given.
C22_SummaryPassThrough ==
  GovernanceReturned =>
    /\ Item(vresult.ret, "audit_summary") = vdata
    /\ vresult.data = vdata

\* a summary naming the audit log file came back from the fallback branch
C22_Witness ==
  /\ GovernanceReturned
  /\ env.gen_raises
  /\ Item(vdata, "status") = PyStr("logged")
  /\ Item(vdata, "output_path") = OutputPath
  /\ Item(vresult.ret, "audit_summary") = vdata

\* C24: the resolution plans LLMResolutionAgent.run returns for the OpsLog
\* stage carry pairwise distinct alert_id values, for every alert list and
\* every response of the generator.
C24_DistinctAlertIds ==
  (ResolutionCalled /\ vresult.ok /\ validate_llm_resolution_output(vresult.ret).ok) =>
    LET resolution_plans == Item(vresult.ret, "resolution_plans").vals
    IN \A i, j \in 1..Len(resolution_plans) :
         i # j => get(resolution_plans[i], "alert_id", PyInt(i))
                    # get(resolution_plans[j], "alert_id", PyInt(j))

\* C28: every governance_analysis LLMGovernanceAgent.run returns holds risk,
\* escalation, compliance_issues and commentary, its risk is one of low,
\* medium, high, critical, and validate_governance_output accepts the output.
C28_AnalysisShape ==
  GovernanceReturned =>
    LET governance_analysis == Item(vresult.ret, "governance_analysis")
    IN /\ isinstance(governance_analysis, "dict")
       /\ \A k \in {"risk", "escalation", "compliance_issues", "commentary"} :
            In(k, governance_analysis)
       /\ Item(governance_analysis, "risk").t = "str"
       /\ Item(governance_analysis, "risk").s \in {"low", "medium", "high", "critical"}
       /\ validate_governance_output(vresult.ret).ok

\* the generator named a risk outside the four levels and an analysis came back
C28_Witness ==
  /\ GovernanceReturned
  /\ ~env.gen_raises
  /\ Truthy(extract_json_block(env.response))
  /\ get(extract_json_block(env.response), "risk", PyNone) = PyStr("severe")
  /\ get(vdata, "status", PyNone) = PyStr("logged")

\* C25: OpenAIClient.generate never raises; when disabled it returns the
\* mock payload without constructing a client or sending a request, and when
\* enabled a failure to construct the client or to call the API comes back
\* as the error-shaped payload.
C25_GenerateNeverRaises ==
  (vpc = "called" /\ vname = "openai_client") =>
    /\ vresult.ok
    /\ ~env.enabled => (vresult.ret = MockResponse /\ io = <<>>)
    /\ (env.enabled /\ (~env.client_ok \/ ~env.api_ok)) =>
         In("error", extract_json_block(vresult.ret))

\* C27: within one run() on a fresh executor the execution log is at all
\* times a prefix of started(S1), completed(S1), ..., started(S6),
\* completed(S6): entry 2i-1 is 'started' of stage i and entry 2i is
\* 'completed' of stage i, so 'completed' only follows its own stage's
\* 'started' and 'started' of stage i+1 only follows 'completed' of stage i.
C27_LogAlternates ==
  /\ Len(execution_log) <= 2 * Len(StageOrder)
  /\ \A k \in 1..Len(execution_log) :
        /\ execution_log[k].stage = StageOrder[(k + 1) \div 2]
        /\ execution_log[k].status = IF k % 2 = 1 THEN "started" ELSE "completed"

\* the run returned with all twelve entries in the log
C27_Witness ==
  /\ pc = "returned"
  /\ Len(execution_log) = 2 * Len(StageOrder)
  /\ execution_log[11].status = "started" /\ execution_log[12].status = "completed"

\* a run over the log file with the one 'Database connection timeout' line,
\* with no real text-generation service (the OpenAIClient is disabled), has
\* returned and the audit log file took its entry
ScenarioRun ==
  /\ pc = "returned"
  /\ env.log = LogFile(TRUE, <<DatabaseTimeout>>, 1)
  /\ ~env.client.enabled
  /\ store.state = "json" /\ store # store_before

\* what the scenario says of the stages before Governance
ScenarioStages ==
  /\ len(frame.triaged) = 1
  /\ Item(frame.triaged.vals[1], "severity") = PyStr("high")
  /\ Item(frame.triaged.vals[1], "category") = PyStr("database")
  /\ LET plans == Item(frame.llm_resolution_output, "resolution_plans")
     IN /\ len(plans) = 1
        /\ Item(plans.vals[1], "priority") = PyInt(2)
        /\ len(Item(plans.vals[1], "recommended_actions")) > 0
  /\ Item(frame.summary, "status") = PyStr("logged")
  /\ Item(frame.summary, "count") = PyInt(1)

\* C26: end-to-end scenario.  With the one alert 'Database connection
\* timeout' (ERROR) and no real text-generation service, a full run()
\* classifies it high/database, produces one plan with priority 2 and
\* non-empty actions, logs it (status logged, count 1) and returns a result
\* whose governance_analysis.risk is 'low'.
C26_Scenario ==
  ScenarioRun =>
    /\ ScenarioStages
    /\ Item(Item(result, "governance_analysis"), "risk") = PyStr("low")

\* the part of the scenario that comes before the Governance stage
ScenarioStagesHold == ScenarioRun => ScenarioStages

\* the Monitor stage of this run yielded no alerts
EmptyRun == Len(returned) >= 1 /\ returned[1] = EmptyList

\* C30: empty run.  When the Monitor stage yields no alerts, run() passes
\* through all six stages without error, no stage calls the text generator,
\* nothing is written to the audit log file, the AuditSummary has status
\* 'no_data' with count 0, and the returned governance_analysis has risk 'low'.
C30_EmptyRun ==
  EmptyRun =>
    /\ pc \notin {"raised", "failed"}
    /\ prompts = <<>>
    /\ store = store_before /\ io = <<>>
    /\ Len(returned) >= 5 =>
          /\ Item(returned[5], "status") = PyStr("no_data")
          /\ Item(returned[5], "count") = PyInt(0)
    /\ pc = "returned" =>
          /\ call_order = <<1, 2, 3, 4, 5, 6>>
          /\ Len(execution_log) = 2 * Len(StageOrder)
          /\ Item(Item(result, "governance_analysis"), "risk") = PyStr("low")

\* a run over a log file without alert lines returned, with a client that
\* would have reached the service
C30_Witness ==
  /\ EmptyRun /\ pc = "returned"
  /\ env.log.exists /\ env.client.enabled
  /\ call_order = <<1, 2, 3, 4, 5, 6>>
  /\ Item(frame.summary, "status") = PyStr("no_data")

\* the OpsLog stage of this run returned status 'failed'
PersistFailed ==
  /\ Len(returned) >= 5
  /\ Item(returned[5], "status") = PyStr("failed")

\* C29: a persistence failure in the OpsLog stage does not fail the run.
\* OpsLogAgent.run then returns status 'failed' with count the number of
\* plans, a non-null timestamp and a null location; this summary passes the
\* OpsLog contract check, Governance is invoked with it, and run() ends
\* with a result, not with an exception.
C29_PersistFailureTolerated ==
  PersistFailed =>
    /\ Item(returned[5], "count") = PyInt(len(call_args[5]))
    /\ Item(returned[5], "timestamp") # PyNone
    /\ Item(returned[5], "output_path") = PyNone
    /\ validate_opslog_output(returned[5]).ok
    /\ Len(call_order) >= 6 => call_args[6] = returned[5]
    /\ pc \notin {"raised", "failed"}
    /\ pc = "returned" => result = frame.governance_output

\* the part of C29 that comes before the end of run()
PersistFailureReachesGovernance ==
  PersistFailed =>
    /\ Item(returned[5], "count") = PyInt(len(call_args[5]))
    /\ Item(returned[5], "timestamp") # PyNone
    /\ Item(returned[5], "output_path") = PyNone
    /\ validate_opslog_output(returned[5]).ok
    /\ Len(call_order) >= 6 => call_args[6] = returned[5]
    /\ pc \in {"raised", "failed"} =>
          /\ failed_stage = 6 /\ origin = "collaborator"
          /\ "LLMGovernanceAgent" \in env.broken

\* C23: the execution log of a PipelineExecutor holds the entries of at
\* most one run: no stage name appears in it with status 'started' more
\* than once, for any number of run() calls made on that executor.
C23_OneRunInLog ==
  \A j, k \in 1..Len(execution_log) :
     (/\ execution_log[j].status = "started"
      /\ execution_log[k].status = "started"
      /\ execution_log[j].stage = execution_log[k].stage) => j = k

====
